---------------------------- MODULE Spec2Model ----------------------------
(***************************************************************************)
(* A model of the automata library: the HOA ingestion pipeline             *)
(* (src/src/hoa/input.rs), the omega acceptance conditions                 *)
(* (src/src/automaton/omega.rs) and the deterministic transition system    *)
(* wrapper (src/src/transition_system/impls/dts.rs).                       *)
(*                                                                         *)
(* Text is a sequence of one-character strings, so that str::find,         *)
(* slicing by byte offset and trim_start are computed as the code computes *)
(* them.  The text of one automaton description (header, --BODY-- and the  *)
(* transitions) is abbreviated to one content character: "D" a description *)
(* of a deterministic automaton, "N" of a nondeterministic one, "U" of an  *)
(* automaton with an unsupported acceptance name.                          *)
(***************************************************************************)
EXTENDS Integers, Sequences, FiniteSets, TLC

VARIABLES
    pieces,     \* the input text as the sequence of pieces it was written from
    op,         \* the entry point under execution
    pc,         \* position of the caller: "call", "done"
    hoa,        \* the HoaString the pop functions work on
    read,       \* HoaAutomatonStream.read: the text not yet read
    buf,        \* HoaAutomatonStream.buf
    pos,        \* HoaAutomatonStream.pos
    handed,     \* the texts handed to the parser so far, in order
    delivered,  \* the automata returned so far, each with its residual
    acc,        \* an OmegaAcceptanceCondition
    infset,     \* the set of acceptance masks seen infinitely often
    outcome,    \* what satisfied(infset) did: a boolean or a failure
    ts,         \* a transition system: its states' colors and its edges
    wrapper,    \* the type that holds ts: "NTS" or "DTS"
    conv,       \* the last NTS to DTS conversion: its argument and its result
    omega,      \* an OmegaAutomaton: its transition system, initial state, condition
    det,        \* the last conversion of omega to a DeterministicOmegaAutomaton
    dpa,        \* the last into_dpa of the converted automaton
    apn,        \* HoaAlphabet.apnames.len(): the number of propositions
    expr,       \* a HoaExpression over the alphabet
    uni,        \* a HoaUniverse iterator
    yielded,    \* the symbols the iterator has yielded, in order
    symres,     \* the last call on the alphabet, a symbol or the expression
    base,       \* the transition system a restricting view wraps
    view,       \* the view: RestrictByStateIndex or EdgeColorRestricted
    viewres,    \* the last call on the view
    mask,       \* an AcceptanceMask
    maskres,    \* the last call on the mask
    popped,     \* pop_omega_automaton called again and again beside the stream
    header,     \* the header of a parsed HoaAutomaton
    compiled,   \* the last conversion of the header or of its automaton
    alphas,     \* the HoaAlphabet values built so far
    eqres,      \* the last comparison of two alphabets
    convin,     \* the automaton given to an alphabet conversion
    convout     \* the result of the alphabet conversion

hoaVars == <<pieces, op, pc, hoa, read, buf, pos, handed, delivered>>

accVars == <<acc, infset, outcome>>

tsVars == <<ts, wrapper, conv>>

omegaVars == <<omega, det, dpa>>

symVars == <<apn, expr, uni, yielded, symres>>

viewVars == <<base, view, viewres>>

maskVars == <<mask, maskres>>

headerVars == <<header, compiled>>

alphaVars == <<alphas, eqres>>

convVars == <<convin, convout>>

moreVars == <<maskVars, popped, headerVars, alphaVars, convVars>>

vars == <<hoaVars, accVars, tsVars, omegaVars, symVars, viewVars, moreVars>>

(***************************************************************************)
(* Bounds.                                                                 *)
(***************************************************************************)
MaxPieces == 5

MaxIndex == 2

MaxInfset == 2

MaxStates == 2

MaxEdges == 2

(***************************************************************************)
(* The components at rest: each specification below runs one component and *)
(* leaves the others in these states.                                      *)
(***************************************************************************)
EmptyTs == [colors |-> <<>>, edges |-> <<>>]

NoConv == [done |-> FALSE, ok |-> FALSE, from |-> EmptyTs]

HoaIdle ==
    /\ pieces = <<>>
    /\ op = "idle"
    /\ pc = "done"
    /\ hoa = <<>>
    /\ read = <<>>
    /\ buf = <<>>
    /\ pos = 0
    /\ handed = <<>>
    /\ delivered = <<>>

AccIdle ==
    /\ acc = [tag |-> "Parity", low |-> 0, high |-> 0]
    /\ infset = {}
    /\ outcome = "idle"

TsIdle ==
    /\ ts = EmptyTs
    /\ wrapper = "idle"
    /\ conv = NoConv

NoAutomaton ==
    [ts |-> EmptyTs, initial |-> 0, acc |-> [tag |-> "Parity", low |-> 0, high |-> 0]]

NoDet == [done |-> FALSE, ok |-> FALSE, aut |-> NoAutomaton]

NoDpa == [done |-> FALSE, outcome |-> "idle", ts |-> EmptyTs, initial |-> 0]

OmegaIdle ==
    /\ omega = NoAutomaton
    /\ det = NoDet
    /\ dpa = NoDpa

NoSymbol == [repr |-> 0, aps |-> 0]

NoExpression == [bdd |-> {}, aps |-> 0]

NoUniverse == [state |-> "none", aps |-> 0, current |-> 0]

NoCall ==
    [op |-> "none", outcome |-> "none", sym |-> NoSymbol, syms |-> {},
     flag |-> FALSE, code |-> 0]

SymIdle ==
    /\ apn = 0
    /\ expr = NoExpression
    /\ uni = NoUniverse
    /\ yielded = <<>>
    /\ symres = NoCall

NoBase == [colors |-> <<>>, edges |-> <<>>, initial |-> 0]

NoView == [kind |-> "none", filter |-> {}, min |-> 0, max |-> 0]

NoViewCall ==
    [op |-> "none", outcome |-> "none", state |-> 0, sym |-> "", word |-> <<>>,
     some |-> FALSE, flag |-> FALSE, seq |-> <<>>, ts |-> NoBase, filter |-> {}]

ViewIdle ==
    /\ base = NoBase
    /\ view = NoView
    /\ viewres = NoViewCall

NoMaskCall == [op |-> "none", outcome |-> "none", value |-> -1, warned |-> FALSE]

MaskIdle ==
    /\ mask = {}
    /\ maskres = NoMaskCall

NoPopped == [pc |-> "idle", handed |-> <<>>, count |-> 0]

PoppedIdle == popped = NoPopped

NoHeader == [name |-> "None", sets |-> -1, aps |-> 0, labels |-> "ok"]

NoCompiled == [op |-> "none", outcome |-> "none", acc |-> "none", low |-> 0, high |-> 0,
               built |-> FALSE]

HeaderIdle ==
    /\ header = NoHeader
    /\ compiled = NoCompiled

AlphaIdle ==
    /\ alphas = <<>>
    /\ eqres = "none"

NoConvIn == [kind |-> "none"]

NoConvOut == [op |-> "none", outcome |-> "none"]

ConvIdle ==
    /\ convin = NoConvIn
    /\ convout = NoConvOut

MoreIdle ==
    /\ MaskIdle
    /\ PoppedIdle
    /\ HeaderIdle
    /\ AlphaIdle
    /\ ConvIdle

(***************************************************************************)
(* Small helpers.                                                          *)
(***************************************************************************)
MinOf(S) == CHOOSE x \in S : \A y \in S : x <= y

MaxOf(S) == CHOOSE x \in S : \A y \in S : y <= x

RECURSIVE Flatten(_)
Flatten(ss) == IF ss = <<>> THEN <<>> ELSE Head(ss) \o Flatten(Tail(ss))

(***************************************************************************)
(* Text.                                                                   *)
(***************************************************************************)
ABORT == <<"-", "-", "A", "B", "O", "R", "T", "-", "-">>

END == <<"-", "-", "E", "N", "D", "-", "-">>

END_LEN == 7

ABORT_LEN == 9

Whitespace == {" ", "\n"}

PieceNames == {"ABORT", "END", "SP", "NL", "D", "N", "U"}

PieceText(p) ==
    CASE p = "ABORT" -> ABORT
      [] p = "END"   -> END
      [] p = "SP"    -> <<" ">>
      [] p = "NL"    -> <<"\n">>
      [] OTHER       -> <<p>>

TextOf(ps) == Flatten([i \in 1..Len(ps) |-> PieceText(ps[i])])

Inputs == UNION {[1..n -> PieceNames] : n \in 0..MaxPieces}

\* str::find: the byte offset of the first occurrence of pat in s, -1 for None
Find(s, pat) ==
    LET hits == {i \in 0..(Len(s) - Len(pat)) : SubSeq(s, i + 1, i + Len(pat)) = pat}
    IN  IF hits = {} THEN -1 ELSE MinOf(hits)

\* str::contains
Contains(s, pat) == Find(s, pat) # -1

\* str::trim_start
TrimStart(s) ==
    LET keep == {i \in 1..Len(s) : s[i] \notin Whitespace}
    IN  IF keep = {} THEN <<>> ELSE SubSeq(s, MinOf(keep), Len(s))

\* &s[from..to] with byte offsets
Slice(s, from, to) == SubSeq(s, from + 1, to)

(***************************************************************************)
(* The external parser (hoars) at its boundary: a text is parsed into an   *)
(* automaton object iff, whitespace aside, it is one automaton description *)
(* followed by the --END-- marker.  A text that holds an --ABORT--, no or  *)
(* a cut --END--, or no description is a parsing error.                    *)
(***************************************************************************)
NoAut == [kind |-> "none", text |-> <<>>]

HoaAutomatonTryFrom(text) ==
    LET bare == SelectSeq(text, LAMBDA c : c \notin Whitespace)
    IN  IF Len(bare) = 1 + END_LEN /\ bare[1] \in {"D", "N", "U"}
           /\ SubSeq(bare, 2, Len(bare)) = END
        THEN [ok |-> TRUE, kind |-> bare[1]]
        ELSE [ok |-> FALSE, kind |-> "none"]

\* TryFrom<HoaAutomaton> for OmegaAutomaton: the acceptance name is compiled
\* first and an unsupported one is an error
OmegaAutomatonTryFrom(parsed) ==
    IF parsed.kind = "U" THEN [ok |-> FALSE, kind |-> "none"] ELSE parsed

ParseOmegaAutomatonRange(text, start, end) ==
    LET range == Slice(text, start, end)
        parsed == HoaAutomatonTryFrom(range)
    IN  IF parsed.ok
        THEN LET aut == OmegaAutomatonTryFrom(parsed)
             IN  IF aut.ok THEN [kind |-> aut.kind, text |-> range] ELSE NoAut
        ELSE NoAut

\* OmegaAutomaton::into_deterministic
IntoDeterministic(aut) == aut.kind = "D"

(***************************************************************************)
(* pop_omega_automaton.  The result: some (an automaton was returned), the *)
(* automaton, the residual, and the texts handed to the parser (none or    *)
(* one).                                                                   *)
(***************************************************************************)
PopNone(texts) == [some |-> FALSE, aut |-> NoAut, rest |-> <<>>, handed |-> texts]

\* PopRange with the residual starting at the --END-- marker
PopRangeKeepingEnd(text, start, end) ==
    LET aut == ParseOmegaAutomatonRange(text, start, end + END_LEN)
        given == <<Slice(text, start, end + END_LEN)>>
    IN  IF aut = NoAut
        THEN PopNone(given)
        ELSE [some |-> TRUE, aut |-> aut,
              rest |-> TrimStart(Slice(text, end, Len(text))),
              handed |-> given]

PopRange(text, start, end) ==
    LET aut == ParseOmegaAutomatonRange(text, start, end + END_LEN)
        given == <<Slice(text, start, end + END_LEN)>>
    IN  IF aut = NoAut
        THEN PopNone(given)
        ELSE [some |-> TRUE, aut |-> aut,
              rest |-> TrimStart(Slice(text, end + END_LEN, Len(text))),
              handed |-> given]

\* pop_omega_automaton with the --ABORT-- marker ignored
PopIgnoringAbort(text) ==
    LET end == Find(text, END)
    IN  IF end # -1 THEN PopRange(text, 0, end) ELSE PopNone(<<>>)

\* pop_omega_automaton parsing what follows an --ABORT-- with no --END--
PopParsingTail(text) ==
    LET abort == Find(text, ABORT)
        end == Find(text, END)
    IN  CASE abort = -1 /\ end # -1 -> PopRange(text, 0, end)
          [] abort # -1 /\ end = -1 ->
                PopNone(<<Slice(text, abort + ABORT_LEN, Len(text))>>)
          [] abort # -1 /\ end # -1 ->
                IF abort < end
                THEN PopRange(text, abort + ABORT_LEN, end)
                ELSE PopRange(text, 0, end)
          [] OTHER -> PopNone(<<>>)

PopOmegaAutomaton(text) ==
    LET abort == Find(text, ABORT)
        end == Find(text, END)
    IN  CASE abort = -1 /\ end # -1 -> PopRange(text, 0, end)
          [] abort # -1 /\ end = -1 -> PopNone(<<>>)
          [] abort # -1 /\ end # -1 ->
                IF abort < end
                THEN PopRange(text, abort + ABORT_LEN, end)
                ELSE PopRange(text, 0, end)
          [] OTHER -> PopNone(<<>>)

(***************************************************************************)
(* Entry points.                                                           *)
(***************************************************************************)
Ops == {"pop", "popdet", "stream", "filter"}

InitHoa ==
    /\ pieces \in Inputs
    /\ op \in Ops
    /\ pc = "call"
    /\ hoa = IF op \in {"pop", "popdet"} THEN TextOf(pieces) ELSE <<>>
    /\ read = IF op \in {"stream", "filter"} THEN TextOf(pieces) ELSE <<>>
    /\ buf = <<>>
    /\ pos = 0
    /\ handed = <<>>
    /\ delivered = <<>>
    /\ AccIdle
    /\ TsIdle
    /\ OmegaIdle
    /\ SymIdle
    /\ ViewIdle
    /\ MoreIdle

Deliver(aut, rest) == Append(delivered, [kind |-> aut.kind, text |-> aut.text, rest |-> rest])

\* a caller that pops until pop_omega_automaton returns none: one call
PopStep ==
    /\ op = "pop"
    /\ pc = "call"
    /\ LET r == PopOmegaAutomaton(hoa)
       IN  /\ handed' = handed \o r.handed
           /\ IF r.some
              THEN /\ delivered' = Deliver(r.aut, r.rest)
                   /\ hoa' = r.rest
                   /\ pc' = "call"
              ELSE /\ pc' = "done"
                   /\ UNCHANGED <<delivered, hoa>>
    /\ UNCHANGED <<pieces, op, read, buf, pos, accVars, tsVars, omegaVars, symVars, viewVars, moreVars>>

\* pop_deterministic_omega_automaton: one iteration of its while-let loop
PopDeterministicStep ==
    /\ op = "popdet"
    /\ pc = "call"
    /\ LET r == PopOmegaAutomaton(hoa)
       IN  /\ handed' = handed \o r.handed
           /\ IF r.some
              THEN IF IntoDeterministic(r.aut)
                   THEN /\ delivered' = Deliver(r.aut, r.rest)
                        /\ pc' = "done"
                        /\ hoa' = hoa
                   ELSE /\ hoa' = r.rest
                        /\ pc' = "call"
                        /\ delivered' = delivered
              ELSE /\ pc' = "done"
                   /\ UNCHANGED <<delivered, hoa>>
    /\ UNCHANGED <<pieces, op, read, buf, pos, accVars, tsVars, omegaVars, symVars, viewVars, moreVars>>

\* BufRead::read_line: the next line, its newline included
NextLine(text) ==
    LET nl == Find(text, <<"\n">>)
    IN  IF nl = -1 THEN text ELSE Slice(text, 0, nl + 1)

\* HoaAutomatonStream::next (and the filter over it): one iteration of its loop,
\* for a caller that iterates until the iterator returns none
StreamStep ==
    /\ op \in {"stream", "filter", "both"}
    /\ pc = "call"
    /\ LET line == NextLine(read)
           read_bytes == Len(line)
           grown == buf \o line
       IN  /\ read' = Slice(read, read_bytes, Len(read))
           /\ IF read_bytes = 0
              THEN /\ pc' = "done"
                   /\ UNCHANGED <<buf, pos, handed, delivered>>
              ELSE IF Contains(Slice(grown, pos, Len(grown)), ABORT)
              THEN /\ buf' = <<>>
                   /\ pos' = 0
                   /\ pc' = "call"
                   /\ UNCHANGED <<handed, delivered>>
              ELSE IF Contains(Slice(grown, pos, Len(grown)), END)
              THEN LET end == pos + END_LEN
                       aut == ParseOmegaAutomatonRange(grown, 0, end)
                   IN  /\ handed' = Append(handed, Slice(grown, 0, end))
                       /\ buf' = <<>>
                       /\ pos' = 0
                       /\ IF aut = NoAut
                          THEN /\ pc' = "done"
                               /\ delivered' = delivered
                          ELSE IF op = "filter" /\ ~IntoDeterministic(aut)
                          THEN /\ pc' = "call"
                               /\ delivered' = delivered
                          ELSE /\ pc' = "call"
                               /\ delivered' = Deliver(aut, Slice(read, read_bytes, Len(read)))
              ELSE /\ buf' = grown
                   /\ pos' = pos + read_bytes
                   /\ pc' = "call"
                   /\ UNCHANGED <<handed, delivered>>
    /\ UNCHANGED <<pieces, op, hoa, accVars, tsVars, omegaVars, symVars, viewVars, moreVars>>

NextHoa == PopStep \/ PopDeterministicStep \/ StreamStep

(***************************************************************************)
(* Acceptance (src/src/automaton/omega.rs).  An AcceptanceMask is the set  *)
(* of its indices; a BitSet iterates them in ascending order.  An          *)
(* Option<usize> is the number, or -1 for None.                            *)
(***************************************************************************)
Masks == SUBSET (0..MaxIndex)

\* try_as_priority taking the last index of the iteration
TryAsPriorityLast(m) == IF m = {} THEN -1 ELSE MaxOf(m)

\* AcceptanceMask::try_as_priority: the first index of the iteration
TryAsPriority(m) == IF m = {} THEN -1 ELSE MinOf(m)

Tags == {"Parity", "Buchi", "Rabin", "Streett", "MaxParity", "CoBuchi", "Reachability", "Safety"}

Conditions ==
    {[tag |-> "Parity", low |-> l, high |-> h] : l \in 0..MaxIndex, h \in 0..MaxIndex}
    \cup {[tag |-> t, low |-> 0, high |-> 0] : t \in Tags \ {"Parity"}}

\* satisfied with the maximum taken in place of the minimum
SatisfiedByMax(cond, set) ==
    IF cond.tag = "Parity"
    THEN IF \E m \in set : m = {}
         THEN "unwrap_none"
         ELSE IF set = {}
         THEN "false"
         ELSE IF MaxOf({MinOf(m) : m \in set}) % 2 = 0 THEN "true" ELSE "false"
    ELSE "unimplemented"

\* satisfied with a Buchi case that answers
SatisfiedWithBuchi(cond, set) ==
    IF cond.tag = "Parity"
    THEN IF \E m \in set : m = {}
         THEN "unwrap_none"
         ELSE IF set = {}
         THEN "false"
         ELSE IF MinOf({MinOf(m) : m \in set}) % 2 = 0 THEN "true" ELSE "false"
    ELSE IF cond.tag = "Buchi"
    THEN IF \E m \in set : 0 \in m THEN "true" ELSE "false"
    ELSE "unimplemented"

\* satisfied with the masks that carry no priority left out
SatisfiedSkippingEmpty(cond, set) ==
    IF cond.tag = "Parity"
    THEN IF set \ {{}} = {}
         THEN "false"
         ELSE IF MinOf({MinOf(m) : m \in set \ {{}}}) % 2 = 0 THEN "true" ELSE "false"
    ELSE "unimplemented"

\* OmegaAcceptanceCondition::satisfied: "true", "false", or the failure it raises.
\* as_priority unwraps try_as_priority, and min() drains the whole iterator, so
\* one empty mask fails the call.
Satisfied(cond, set) ==
    IF cond.tag = "Parity"
    THEN IF \E m \in set : TryAsPriority(m) = -1
         THEN "unwrap_none"
         ELSE IF set = {}
         THEN "false"
         ELSE IF MinOf({TryAsPriority(m) : m \in set}) % 2 = 0 THEN "true" ELSE "false"
    ELSE "unimplemented"

InitAcc ==
    /\ acc \in Conditions
    /\ infset \in {s \in SUBSET Masks : Cardinality(s) <= MaxInfset}
    /\ outcome = "pending"
    /\ HoaIdle
    /\ TsIdle
    /\ OmegaIdle
    /\ SymIdle
    /\ ViewIdle
    /\ MoreIdle

CallSatisfied ==
    /\ outcome = "pending"
    /\ outcome' = Satisfied(acc, infset)
    /\ UNCHANGED <<acc, infset, hoaVars, tsVars, omegaVars, symVars, viewVars, moreVars>>

NextAcc == CallSatisfied

(***************************************************************************)
(* Transition systems.  An NTS is its states' colors (the state index is   *)
(* the position, from 0) and its edges in insertion order; an expression   *)
(* is the set of the symbols it matches.  The DTS is a wrapper around the  *)
(* NTS (src/src/transition_system/impls/dts.rs).                           *)
(***************************************************************************)
Sigma == {"a", "b"}

Expressions == (SUBSET Sigma) \ {{}}

StateColors == {0, 1}

\* the edge color is a payload no operation of the NTS or the DTS inspects
EdgeColors == {0}

\* state_indices: 0..size
StateIndices(t) == 0..(Len(t.colors) - 1)

Matches(expression, symbol) == symbol \in expression

NoEdges == [some |-> FALSE, edges |-> <<>>]

NoEdge == [source |-> -1, expression |-> {}, color |-> -1, target |-> -1]

\* NTS::add_state
NtsAddState(t, color) == [t EXCEPT !.colors = Append(@, color)]

\* NTS::set_state_color
NtsSetStateColor(t, index, color) == [t EXCEPT !.colors[index + 1] = color]

\* NTS::add_edge: edges of any multiplicity
NtsAddEdge(t, e) == [t EXCEPT !.edges = Append(@, e)]

\* NTS::remove_edges: the edges leaving from with expression on
NtsRemoveEdges(t, from, on) ==
    [t EXCEPT !.edges = SelectSeq(@, LAMBDA e : ~(e.source = from /\ e.expression = on))]

\* NTS::edges_from: none for an absent state, some(empty) for a sink
NtsEdgesFrom(t, state) ==
    IF state \in StateIndices(t)
    THEN [some |-> TRUE, edges |-> SelectSeq(t.edges, LAMBDA e : e.source = state)]
    ELSE NoEdges

\* NTS::is_deterministic: no state has two edges that match a common symbol
NtsIsDeterministic(t) ==
    \A i, j \in 1..Len(t.edges) :
        (i # j /\ t.edges[i].source = t.edges[j].source) =>
            t.edges[i].expression \cap t.edges[j].expression = {}

\* the conversion without its check
DtsTryFromUnchecked(value) == [ok |-> TRUE, dts |-> value]

\* TryFrom<NTS> for DTS
DtsTryFrom(value) ==
    IF ~NtsIsDeterministic(value)
    THEN [ok |-> FALSE, dts |-> EmptyTs]
    ELSE [ok |-> TRUE, dts |-> value]

\* From<DTS> for NTS
NtsFromDts(value) == value

\* TransitionSystem::edges_from for DTS
DtsEdgesFrom(d, state) == NtsEdgesFrom(d, state)

\* Deterministic::transition: the first edge from state that matches symbol
DtsTransition(d, state, symbol) ==
    LET out == DtsEdgesFrom(d, state)
    IN  IF ~out.some
        THEN NoEdge
        ELSE LET hits == SelectSeq(out.edges, LAMBDA e : Matches(e.expression, symbol))
             IN  IF hits = <<>> THEN NoEdge ELSE hits[1]

\* Sproutable for DTS
DtsAddState(d, color) == NtsAddState(d, color)

DtsSetStateColor(d, index, color) ==
    IF index \notin StateIndices(d) THEN d ELSE NtsSetStateColor(d, index, color)

DtsAddEdge(d, e) == NtsAddEdge(d, e)

DtsRemoveEdges(d, from, on) ==
    IF from \in StateIndices(d) THEN NtsRemoveEdges(d, from, on) ELSE d

\* NTS::for_alphabet, DTS::for_alphabet and DTS::with_capacity
InitTs ==
    /\ ts = EmptyTs
    /\ wrapper \in {"NTS", "DTS"}
    /\ conv = NoConv
    /\ HoaIdle
    /\ AccIdle
    /\ OmegaIdle
    /\ SymIdle
    /\ ViewIdle
    /\ MoreIdle

EdgesOver(t) ==
    [source : StateIndices(t), expression : Expressions, color : EdgeColors,
     target : StateIndices(t)]

NtsAddStateCall ==
    /\ wrapper = "NTS"
    /\ Len(ts.colors) < MaxStates
    /\ \E c \in StateColors : ts' = NtsAddState(ts, c)
    /\ conv' = NoConv
    /\ UNCHANGED <<wrapper, hoaVars, accVars, omegaVars, symVars, viewVars, moreVars>>

NtsAddEdgeCall ==
    /\ wrapper = "NTS"
    /\ Len(ts.edges) < MaxEdges
    /\ \E e \in EdgesOver(ts) : ts' = NtsAddEdge(ts, e)
    /\ conv' = NoConv
    /\ UNCHANGED <<wrapper, hoaVars, accVars, omegaVars, symVars, viewVars, moreVars>>

\* DTS::try_from(&nts): on failure the caller keeps the NTS
DtsTryFromCall ==
    /\ wrapper = "NTS"
    /\ LET r == DtsTryFrom(ts)
       IN  /\ conv' = [done |-> TRUE, ok |-> r.ok, from |-> ts]
           /\ IF r.ok
              THEN ts' = r.dts /\ wrapper' = "DTS"
              ELSE UNCHANGED <<ts, wrapper>>
    /\ UNCHANGED <<hoaVars, accVars, omegaVars, symVars, viewVars, moreVars>>

NtsFromDtsCall ==
    /\ wrapper = "DTS"
    /\ ts' = NtsFromDts(ts)
    /\ wrapper' = "NTS"
    /\ conv' = NoConv
    /\ UNCHANGED <<hoaVars, accVars, omegaVars, symVars, viewVars, moreVars>>

DtsAddStateCall ==
    /\ wrapper = "DTS"
    /\ Len(ts.colors) < MaxStates
    /\ \E c \in StateColors : ts' = DtsAddState(ts, c)
    /\ conv' = NoConv
    /\ UNCHANGED <<wrapper, hoaVars, accVars, omegaVars, symVars, viewVars, moreVars>>

DtsSetStateColorCall ==
    /\ wrapper = "DTS"
    /\ \E q \in 0..MaxStates, c \in StateColors : ts' = DtsSetStateColor(ts, q, c)
    /\ conv' = NoConv
    /\ UNCHANGED <<wrapper, hoaVars, accVars, omegaVars, symVars, viewVars, moreVars>>

DtsAddEdgeCall ==
    /\ wrapper = "DTS"
    /\ Len(ts.edges) < MaxEdges
    /\ \E e \in EdgesOver(ts) : ts' = DtsAddEdge(ts, e)
    /\ conv' = NoConv
    /\ UNCHANGED <<wrapper, hoaVars, accVars, omegaVars, symVars, viewVars, moreVars>>

DtsRemoveEdgesCall ==
    /\ wrapper = "DTS"
    /\ \E q \in 0..MaxStates, on \in Expressions : ts' = DtsRemoveEdges(ts, q, on)
    /\ conv' = NoConv
    /\ UNCHANGED <<wrapper, hoaVars, accVars, omegaVars, symVars, viewVars, moreVars>>

NextTs ==
    \/ NtsAddStateCall
    \/ NtsAddEdgeCall
    \/ DtsTryFromCall
    \/ NtsFromDtsCall
    \/ DtsAddStateCall
    \/ DtsSetStateColorCall
    \/ DtsAddEdgeCall
    \/ DtsRemoveEdgesCall

(***************************************************************************)
(* Omega automata (src/src/automaton/omega.rs): a transition system whose  *)
(* edge colors are acceptance masks, with an initial state and an          *)
(* acceptance condition.  The deterministic automaton holds a DTS, the     *)
(* other an NTS.                                                           *)
(***************************************************************************)
EdgeMasks == {{}, {0}, {1}, {1, MaxIndex}}

OmegaConditions ==
    {[tag |-> "Parity", low |-> 0, high |-> MaxIndex], [tag |-> "Buchi", low |-> 0, high |-> 0]}

OmegaEdgesOver(colors) ==
    [source : 0..(Len(colors) - 1), expression : Expressions,
     color : EdgeMasks, target : 0..(Len(colors) - 1)]

\* TryFrom<Initialized<NTS>> for Initialized<DTS>: the conversion of the system,
\* the initial state kept
InitializedTryFrom(t, initial) ==
    LET r == DtsTryFrom(t)
    IN  [ok |-> r.ok, dts |-> r.dts, initial |-> IF r.ok THEN initial ELSE 0]

\* the conversion with the condition of a newly built automaton
OmegaTryFromDefaultAcc(value) ==
    LET r == InitializedTryFrom(value.ts, value.initial)
    IN  IF ~r.ok
        THEN [done |-> TRUE, ok |-> FALSE, aut |-> NoAutomaton]
        ELSE [done |-> TRUE, ok |-> TRUE,
              aut |-> [ts |-> r.dts, initial |-> r.initial, acc |-> NoAutomaton.acc]]

\* TryFrom<OmegaAutomaton> and TryFrom<&OmegaAutomaton> for DeterministicOmegaAutomaton
OmegaTryFrom(value) ==
    LET r == InitializedTryFrom(value.ts, value.initial)
    IN  IF ~r.ok
        THEN [done |-> TRUE, ok |-> FALSE, aut |-> NoAutomaton]
        ELSE [done |-> TRUE, ok |-> TRUE,
              aut |-> [ts |-> r.dts, initial |-> r.initial, acc |-> value.acc]]

\* OmegaAutomaton::into_deterministic: try_into().ok()
OmegaIntoDeterministic(value) == OmegaTryFrom(value)

\* edge_colors_unique filtered through try_as_priority
EdgePriorities(t) ==
    {TryAsPriority(t.edges[i].color) : i \in 1..Len(t.edges)} \ {-1}

\* map_edge_colors
MapEdgeColors(t, f) ==
    [t EXCEPT !.edges = [i \in 1..Len(t.edges) |->
                            [t.edges[i] EXCEPT !.color = f[t.edges[i].color]]]]

\* into_dpa with 0 in place of the neutral priority
IntoDpaNeutralZero(d) ==
    IF d.acc.tag # "Parity"
    THEN [done |-> TRUE, outcome |-> "assert_failed", ts |-> EmptyTs, initial |-> 0]
    ELSE IF EdgePriorities(d.ts) = {}
    THEN [done |-> TRUE, outcome |-> "expect_failed", ts |-> EmptyTs, initial |-> 0]
    ELSE LET Priority(msk) == IF TryAsPriority(msk) = -1 THEN 0 ELSE TryAsPriority(msk)
         IN  [done |-> TRUE, outcome |-> "ok",
              ts |-> MapEdgeColors(d.ts, [msk \in EdgeMasks |-> Priority(msk)]),
              initial |-> d.initial]

\* DeterministicOmegaAutomaton::into_dpa
IntoDpa(d) ==
    IF d.acc.tag # "Parity"
    THEN [done |-> TRUE, outcome |-> "assert_failed", ts |-> EmptyTs, initial |-> 0]
    ELSE IF EdgePriorities(d.ts) = {}
    THEN [done |-> TRUE, outcome |-> "expect_failed", ts |-> EmptyTs, initial |-> 0]
    ELSE LET neutral == MaxOf(EdgePriorities(d.ts))
             Priority(msk) ==
                 IF TryAsPriority(msk) = -1 THEN neutral ELSE TryAsPriority(msk)
         IN  [done |-> TRUE, outcome |-> "ok",
              ts |-> MapEdgeColors(d.ts, [msk \in EdgeMasks |-> Priority(msk)]),
              initial |-> d.initial]

InitOmega ==
    /\ \E c \in {<<0>>, <<0, 1>>}, n \in 0..MaxEdges :
          \E es \in [1..n -> OmegaEdgesOver(c)] :
              \E initial \in 0..(Len(c) - 1), cond \in OmegaConditions :
                  omega = [ts |-> [colors |-> c, edges |-> es],
                           initial |-> initial, acc |-> cond]
    /\ det = NoDet
    /\ dpa = NoDpa
    /\ HoaIdle
    /\ AccIdle
    /\ TsIdle
    /\ SymIdle
    /\ ViewIdle
    /\ MoreIdle

TryFromByValueCall ==
    /\ ~det.done
    /\ det' = OmegaTryFrom(omega)
    /\ UNCHANGED <<omega, dpa, hoaVars, accVars, tsVars, symVars, viewVars, moreVars>>

TryFromByRefCall ==
    /\ ~det.done
    /\ det' = OmegaTryFrom(omega)
    /\ UNCHANGED <<omega, dpa, hoaVars, accVars, tsVars, symVars, viewVars, moreVars>>

IntoDeterministicCall ==
    /\ ~det.done
    /\ det' = OmegaIntoDeterministic(omega)
    /\ UNCHANGED <<omega, dpa, hoaVars, accVars, tsVars, symVars, viewVars, moreVars>>

IntoDpaCall ==
    /\ det.done
    /\ det.ok
    /\ ~dpa.done
    /\ dpa' = IntoDpa(det.aut)
    /\ UNCHANGED <<omega, det, hoaVars, accVars, tsVars, symVars, viewVars, moreVars>>

NextOmega ==
    \/ TryFromByValueCall
    \/ TryFromByRefCall
    \/ IntoDeterministicCall
    \/ IntoDpaCall

(***************************************************************************)
(* The propositional alphabet (src/src/hoa.rs).  A valuation of the        *)
(* MAX_APS variables of the shared BDD variable set is the number whose    *)
(* bit i is the value of variable i; a BDD is the set of the valuations    *)
(* that satisfy it; a HoaSymbol is its repr (8 bits) and its proposition   *)
(* count.  A character is its code.                                        *)
(***************************************************************************)
MAX_APS == 8

Pow2(n) == 2^n

Bit(v, i) == (v \div Pow2(i)) % 2 = 1

Valuations == 0..(Pow2(MAX_APS) - 1)

\* HoaAlphabet::top, bot, var, not_var
Top == Valuations

Bot == {}

Var(i) == {v \in Valuations : Bit(v, i)}

NotVar(i) == {v \in Valuations : ~Bit(v, i)}

\* the expressions built over an alphabet of n propositions with var, not_var,
\* top, bot and the operators & and |
ExpressionsOver(n) ==
    [bdd : {Top, Bot}
           \cup {Var(i) : i \in 0..(n - 1)} \cup {NotVar(i) : i \in 0..(n - 1)}
           \cup {Var(i) \cap NotVar(j) : i, j \in 0..(n - 1)}
           \cup {Var(i) \cup Var(j) : i, j \in 0..(n - 1)},
     aps : {n}]

\* bdd_valuation_to_hoa_symbol: the proposition count is the valuation's number
\* of variables, repr collects the bits of all MAX_APS variables
BddValuationToHoaSymbol(valuation) ==
    [repr |-> valuation % 256, aps |-> MAX_APS]

\* HoaSymbol::as_bdd_valuation: all false, then the first aps bits of repr
AsBddValuation(symbol) == symbol.repr % Pow2(symbol.aps)

\* Expression::symbols: one symbol per satisfying valuation of the BDD
ExpressionSymbols(e) == {BddValuationToHoaSymbol(v) : v \in e.bdd}

\* Expression::matches: eval_in
ExpressionMatches(e, symbol) == AsBddValuation(symbol) \in e.bdd

\* Show for HoaExpression: fails on an empty DNF; the text is not modelled
ExpressionShow(e) == IF e.bdd = {} THEN "panic" ELSE "ok"

\* HoaSymbol::to_char
ToChar(symbol) ==
    IF symbol.aps > MAX_APS
    THEN [outcome |-> "assert_failed", code |-> 0]
    ELSE [outcome |-> "ok", code |-> (97 + (symbol.repr % 16)) % 256]

\* HoaSymbol::from_char
FromChar(value, aps) ==
    IF aps > MAX_APS \/ ~(97 < value) \/ ~(value <= 112)
    THEN [outcome |-> "assert_failed", sym |-> NoSymbol]
    ELSE [outcome |-> "ok", sym |-> [repr |-> (value - 97) % 16, aps |-> aps]]

\* HoaAlphabet::size: 2u32.saturating_pow(n)
AlphabetSize(n) == IF n >= 32 THEN Pow2(32) - 1 ELSE Pow2(n)

\* HoaUniverse::new
HoaUniverseNew(aps) ==
    IF aps < MAX_APS
    THEN [state |-> "iterating", aps |-> aps, current |-> 0]
    ELSE [state |-> "assert_failed", aps |-> 0, current |-> 0]

\* next with the bound included
HoaUniverseNextInclusive(u) ==
    IF u.current % 65536 <= AlphabetSize(u.aps) % 65536
    THEN [some |-> TRUE, sym |-> [repr |-> u.current, aps |-> u.aps],
          to |-> [u EXCEPT !.current = (u.current + 1) % 256]]
    ELSE [some |-> FALSE, sym |-> NoSymbol, to |-> u]

\* Iterator::next for HoaUniverse; current is a u8
HoaUniverseNext(u) ==
    IF u.current % 65536 < AlphabetSize(u.aps) % 65536
    THEN [some |-> TRUE, sym |-> [repr |-> u.current, aps |-> u.aps],
          to |-> [u EXCEPT !.current = (u.current + 1) % 256]]
    ELSE [some |-> FALSE, sym |-> NoSymbol, to |-> u]

\* the iterator after n calls of next
RECURSIVE Advanced(_, _)
Advanced(u, n) ==
    IF n = 0 THEN u
    ELSE IF n = 1 THEN HoaUniverseNext(u).to
    ELSE CHOOSE r \in {Advanced(h, n - (n \div 2)) : h \in {Advanced(u, n \div 2)}} : TRUE

\* the symbols that n calls of next yield
RECURSIVE Yields(_, _)
Yields(u, n) ==
    IF n = 0 THEN {}
    ELSE IF n = 1 THEN (IF HoaUniverseNext(u).some THEN {HoaUniverseNext(u).sym} ELSE {})
    ELSE Yields(u, n \div 2)
         \cup UNION {Yields(h, n - (n \div 2)) : h \in {Advanced(u, n \div 2)}}

\* the symbols the iterator yields until it returns none (it stays where it is
\* once it has returned none); current is a u8, so an iterator that yields 256
\* times has come back to where it started
Drain(u) == Yields(u, 256)

\* the symbols of Alphabet::universe
UniverseSymbols(n) ==
    IF HoaUniverseNew(n).state = "iterating" THEN Drain(HoaUniverseNew(n)) ELSE {}

\* Alphabet::universe called, once or again, and iterated
InitUniverse ==
    /\ apn \in 0..MAX_APS
    /\ expr = NoExpression
    /\ uni = NoUniverse
    /\ yielded = <<>>
    /\ symres = NoCall
    /\ HoaIdle
    /\ AccIdle
    /\ TsIdle
    /\ OmegaIdle
    /\ ViewIdle
    /\ MoreIdle

UniverseCall ==
    /\ uni.state # "assert_failed"
    /\ uni' = HoaUniverseNew(apn)
    /\ yielded' = <<>>
    /\ UNCHANGED <<apn, expr, symres, hoaVars, accVars, tsVars, omegaVars, viewVars, moreVars>>

UniverseNextCall ==
    /\ uni.state = "iterating"
    /\ LET r == HoaUniverseNext(uni)
       IN  IF r.some
           THEN /\ yielded' = Append(yielded, r.sym)
                /\ uni' = r.to
           ELSE /\ yielded' = yielded
                /\ uni' = [r.to EXCEPT !.state = "ended"]
    /\ UNCHANGED <<apn, expr, symres, hoaVars, accVars, tsVars, omegaVars, viewVars, moreVars>>

SizeCall ==
    /\ symres.op = "none"
    /\ symres' = [NoCall EXCEPT !.op = "size", !.outcome = "ok", !.code = AlphabetSize(apn)]
    /\ UNCHANGED <<apn, expr, uni, yielded, hoaVars, accVars, tsVars, omegaVars, viewVars, moreVars>>

NextUniverse ==
    \/ UniverseCall
    \/ UniverseNextCall
    \/ SizeCall

\* one call on an expression or on a symbol of an alphabet of apn propositions
InitSym ==
    /\ apn \in 1..(MAX_APS - 1)
    /\ expr \in ExpressionsOver(apn)
    /\ uni = NoUniverse
    /\ yielded = <<>>
    /\ symres = NoCall
    /\ HoaIdle
    /\ AccIdle
    /\ TsIdle
    /\ OmegaIdle
    /\ ViewIdle
    /\ MoreIdle

\* the symbols the code can produce: those of the universe and those of symbols()
SymbolsAtHand == UniverseSymbols(apn) \cup ExpressionSymbols(expr)

SymbolsCall ==
    /\ symres.op = "none"
    /\ symres' = [NoCall EXCEPT !.op = "symbols", !.outcome = "ok",
                                !.syms = ExpressionSymbols(expr)]
    /\ UNCHANGED <<apn, expr, uni, yielded, hoaVars, accVars, tsVars, omegaVars, viewVars, moreVars>>

MatchesCall ==
    /\ symres.op = "none"
    /\ \E s \in SymbolsAtHand :
          symres' = [NoCall EXCEPT !.op = "matches", !.outcome = "ok", !.sym = s,
                                   !.flag = ExpressionMatches(expr, s)]
    /\ UNCHANGED <<apn, expr, uni, yielded, hoaVars, accVars, tsVars, omegaVars, viewVars, moreVars>>

ShowCall ==
    /\ symres.op = "none"
    /\ symres' = [NoCall EXCEPT !.op = "show", !.outcome = ExpressionShow(expr)]
    /\ UNCHANGED <<apn, expr, uni, yielded, hoaVars, accVars, tsVars, omegaVars, viewVars, moreVars>>

ToCharCall ==
    /\ symres.op = "none"
    /\ \E s \in SymbolsAtHand :
          symres' = [NoCall EXCEPT !.op = "to_char", !.outcome = ToChar(s).outcome,
                                   !.sym = s, !.code = ToChar(s).code]
    /\ UNCHANGED <<apn, expr, uni, yielded, hoaVars, accVars, tsVars, omegaVars, viewVars, moreVars>>

FromCharCall ==
    /\ symres.op = "none"
    /\ \E c \in 96..113 :
          symres' = [NoCall EXCEPT !.op = "from_char", !.outcome = FromChar(c, apn).outcome,
                                   !.sym = FromChar(c, apn).sym, !.code = c]
    /\ UNCHANGED <<apn, expr, uni, yielded, hoaVars, accVars, tsVars, omegaVars, viewVars, moreVars>>

NextSym ==
    \/ SymbolsCall
    \/ MatchesCall
    \/ ShowCall
    \/ ToCharCall
    \/ FromCharCall

(***************************************************************************)
(* Restricting views (src/crates/automata/src/ts/operations/restricted.rs) *)
(* over a pointed transition system with boolean state colors and integer  *)
(* edge colors.  A filter is the set of the indices it leaves unmasked.    *)
(***************************************************************************)
MaxWord == 2

Words == UNION {[1..n -> Sigma] : n \in 0..MaxWord}

ViewColors == 0..MaxIndex

\* the DFA of tests::restrict_ts_by_state_index
TestDfa ==
    [colors |-> <<FALSE, FALSE, TRUE>>,
     edges |-> <<[source |-> 0, expression |-> {"a"}, color |-> 0, target |-> 1],
                 [source |-> 0, expression |-> {"b"}, color |-> 0, target |-> 0],
                 [source |-> 1, expression |-> {"a"}, color |-> 0, target |-> 2],
                 [source |-> 1, expression |-> {"b"}, color |-> 0, target |-> 1],
                 [source |-> 2, expression |-> {"a"}, color |-> 0, target |-> 0],
                 [source |-> 2, expression |-> {"b"}, color |-> 0, target |-> 2]>>,
     initial |-> 0]

\* is_unmasked answering for the masked indices
IsUnmaskedInverted(filter, idx) == idx \notin filter

\* StateIndexFilter::is_unmasked, is_masked
IsUnmasked(filter, idx) == idx \in filter

IsMasked(filter, idx) == ~IsUnmasked(filter, idx)

\* the wrapped system's read interface
BaseStateIndices(t) == [k \in 1..Len(t.colors) |-> k - 1]

BaseStateColor(t, state) ==
    IF state \in StateIndices(t)
    THEN [some |-> TRUE, color |-> t.colors[state + 1]]
    ELSE [some |-> FALSE, color |-> FALSE]

BaseEdgesFrom(t, state) == NtsEdgesFrom(t, state)

BaseEdge(t, state, sym) == DtsTransition(t, state, sym)

\* RestrictedStateIndices::next over state_indices
RestrictedStateIndices(v, t) ==
    SelectSeq(BaseStateIndices(t), LAMBDA q : IsUnmasked(v.filter, q))

\* state_color answering for a masked state too
RestrictedStateColorUnmasked(v, t, state) == BaseStateColor(t, state)

\* RestrictByStateIndex::state_color
RestrictedStateColor(v, t, state) ==
    IF IsMasked(v.filter, state)
    THEN [some |-> FALSE, color |-> FALSE]
    ELSE BaseStateColor(t, state)

\* RestrictByStateIndex::edges_from with RestrictedEdgesFromIter::next
RestrictedEdgesFrom(v, t, state) ==
    IF ~IsUnmasked(v.filter, state)
    THEN NoEdges
    ELSE LET out == BaseEdgesFrom(t, state)
         IN  IF out.some
             THEN [some |-> TRUE,
                   edges |-> SelectSeq(out.edges, LAMBDA e : IsUnmasked(v.filter, e.target))]
             ELSE NoEdges

\* maybe_initial_state without the look at the filter
RestrictedMaybeInitialStateUnfiltered(v, t) == [some |-> TRUE, state |-> t.initial]

\* RestrictByStateIndex::maybe_initial_state
RestrictedMaybeInitialState(v, t) ==
    IF IsUnmasked(v.filter, t.initial)
    THEN [some |-> TRUE, state |-> t.initial]
    ELSE [some |-> FALSE, state |-> 0]

\* initial without its assertion
RestrictedInitialUnchecked(v, t) == [outcome |-> "ok", state |-> t.initial]

\* Pointed::initial for RestrictByStateIndex
RestrictedInitial(v, t) ==
    IF IsUnmasked(v.filter, t.initial)
    THEN [outcome |-> "ok", state |-> t.initial]
    ELSE [outcome |-> "assert_failed", state |-> 0]

\* RestrictByStateIndex::into_parts
RestrictedIntoParts(v, t) == [ts |-> t, filter |-> v.filter]

\* Deterministic::edge on the view: the edge of edges_from that matches
RestrictedEdge(v, t, state, sym) ==
    LET out == RestrictedEdgesFrom(v, t, state)
        hits == SelectSeq(out.edges, LAMBDA e : Matches(e.expression, sym))
    IN  IF ~out.some \/ hits = <<>> THEN NoEdge ELSE hits[1]

\* the run of a word: the state reached, or -1 when an edge is missing
RECURSIVE RunFrom(_, _, _)
RunFrom(t, state, word) ==
    IF word = <<>>
    THEN state
    ELSE LET e == BaseEdge(t, state, Head(word))
         IN  IF e = NoEdge THEN -1 ELSE RunFrom(t, e.target, Tail(word))

RECURSIVE RestrictedRunFrom(_, _, _, _)
RestrictedRunFrom(v, t, state, word) ==
    IF word = <<>>
    THEN state
    ELSE LET e == RestrictedEdge(v, t, state, Head(word))
         IN  IF e = NoEdge THEN -1 ELSE RestrictedRunFrom(v, t, e.target, Tail(word))

\* DFA::accepts: the run from the initial state ends in an accepting state
DfaAccepts(t, word) ==
    LET q == RunFrom(t, t.initial, word)
    IN  IF q # -1 /\ BaseStateColor(t, q).color THEN "accepted" ELSE "rejected"

\* into_dfa().accepts(word) on the view: the DFA is built from the view's
\* initial state
RestrictedDfaAccepts(v, t, word) ==
    LET i == RestrictedInitial(v, t)
    IN  IF i.outcome # "ok"
        THEN i.outcome
        ELSE LET q == RestrictedRunFrom(v, t, i.state, word)
             IN  IF q # -1 /\ RestrictedStateColor(v, t, q).color
                 THEN "accepted"
                 ELSE "rejected"

InRange(v, color) == color <= v.max /\ v.min <= color

\* EdgeColorRestricted::edges_from with ColorRestrictedEdgesFrom::next
ColorRestrictedEdgesFrom(v, t, state) ==
    LET out == BaseEdgesFrom(t, state)
    IN  IF out.some
        THEN [some |-> TRUE, edges |-> SelectSeq(out.edges, LAMBDA e : InRange(v, e.color))]
        ELSE NoEdges

\* edge with the bounds excluded
ColorRestrictedEdgeExclusive(v, t, state, sym) ==
    LET e == BaseEdge(t, state, sym)
    IN  IF e # NoEdge /\ e.color < v.max /\ v.min < e.color THEN e ELSE NoEdge

\* Deterministic::edge for EdgeColorRestricted
ColorRestrictedEdge(v, t, state, sym) ==
    LET e == BaseEdge(t, state, sym)
    IN  IF e # NoEdge /\ InRange(v, e.color) THEN e ELSE NoEdge

ViewEdges(n, colors) ==
    [source : 0..(n - 1), expression : {{"a"}, {"b"}}, color : colors, target : 0..(n - 1)]

\* a view built over a system: restrict_state_indices(filter) or
\* EdgeColorRestricted::new(ts, min, max)
InitView ==
    /\ \/ /\ base = TestDfa
          /\ \E f \in SUBSET StateIndices(TestDfa) :
                view = [kind |-> "states", filter |-> f, min |-> 0, max |-> 0]
       \/ \E c \in {<<TRUE>>, <<FALSE, TRUE>>}, n \in 0..MaxEdges :
             \E es \in [1..n -> ViewEdges(Len(c), {0})], i \in 0..(Len(c) - 1) :
                /\ base = [colors |-> c, edges |-> es, initial |-> i]
                /\ \E f \in SUBSET (0..(Len(c) - 1)) :
                      view = [kind |-> "states", filter |-> f, min |-> 0, max |-> 0]
       \/ \E c \in {<<TRUE>>, <<FALSE, TRUE>>}, n \in 0..MaxEdges :
             \E es \in [1..n -> ViewEdges(Len(c), ViewColors)] :
                /\ base = [colors |-> c, edges |-> es, initial |-> 0]
                /\ NtsIsDeterministic(base)
                /\ \E lo, hi \in ViewColors :
                      view = [kind |-> "colors", filter |-> {}, min |-> lo, max |-> hi]
    /\ viewres = NoViewCall
    /\ HoaIdle
    /\ AccIdle
    /\ TsIdle
    /\ OmegaIdle
    /\ SymIdle
    /\ MoreIdle

\* the indices a caller may ask about: those of the system and one beyond
IndicesAsked == 0..Len(base.colors)

StateIndicesCall ==
    /\ view.kind = "states"
    /\ viewres.op = "none"
    /\ viewres' = [NoViewCall EXCEPT !.op = "state_indices", !.outcome = "ok",
                                     !.seq = RestrictedStateIndices(view, base)]
    /\ UNCHANGED <<base, view, hoaVars, accVars, tsVars, omegaVars, symVars, moreVars>>

StateColorCall ==
    /\ view.kind = "states"
    /\ viewres.op = "none"
    /\ \E q \in IndicesAsked :
          viewres' = [NoViewCall EXCEPT !.op = "state_color", !.outcome = "ok", !.state = q,
                                        !.some = RestrictedStateColor(view, base, q).some,
                                        !.flag = RestrictedStateColor(view, base, q).color]
    /\ UNCHANGED <<base, view, hoaVars, accVars, tsVars, omegaVars, symVars, moreVars>>

EdgesFromCall ==
    /\ view.kind = "states"
    /\ viewres.op = "none"
    /\ \E q \in IndicesAsked :
          viewres' = [NoViewCall EXCEPT !.op = "edges_from", !.outcome = "ok", !.state = q,
                                        !.some = RestrictedEdgesFrom(view, base, q).some,
                                        !.seq = RestrictedEdgesFrom(view, base, q).edges]
    /\ UNCHANGED <<base, view, hoaVars, accVars, tsVars, omegaVars, symVars, moreVars>>

MaybeInitialStateCall ==
    /\ view.kind = "states"
    /\ viewres.op = "none"
    /\ viewres' = [NoViewCall EXCEPT !.op = "maybe_initial_state", !.outcome = "ok",
                                     !.some = RestrictedMaybeInitialState(view, base).some,
                                     !.state = RestrictedMaybeInitialState(view, base).state]
    /\ UNCHANGED <<base, view, hoaVars, accVars, tsVars, omegaVars, symVars, moreVars>>

InitialCall ==
    /\ view.kind = "states"
    /\ viewres.op = "none"
    /\ viewres' = [NoViewCall EXCEPT !.op = "initial",
                                     !.outcome = RestrictedInitial(view, base).outcome,
                                     !.state = RestrictedInitial(view, base).state]
    /\ UNCHANGED <<base, view, hoaVars, accVars, tsVars, omegaVars, symVars, moreVars>>

IntoPartsCall ==
    /\ view.kind = "states"
    /\ viewres.op = "none"
    /\ viewres' = [NoViewCall EXCEPT !.op = "into_parts", !.outcome = "ok",
                                     !.ts = RestrictedIntoParts(view, base).ts,
                                     !.filter = RestrictedIntoParts(view, base).filter]
    /\ UNCHANGED <<base, view, hoaVars, accVars, tsVars, omegaVars, symVars, moreVars>>

AcceptsCall ==
    /\ view.kind = "states"
    /\ viewres.op = "none"
    /\ NtsIsDeterministic(base)
    /\ \E w \in Words :
          viewres' = [NoViewCall EXCEPT !.op = "accepts", !.word = w,
                                        !.outcome = DfaAccepts(base, w)]
    /\ UNCHANGED <<base, view, hoaVars, accVars, tsVars, omegaVars, symVars, moreVars>>

RestrictedAcceptsCall ==
    /\ view.kind = "states"
    /\ viewres.op = "none"
    /\ NtsIsDeterministic(base)
    /\ \E w \in Words :
          viewres' = [NoViewCall EXCEPT !.op = "restricted_accepts", !.word = w,
                                        !.outcome = RestrictedDfaAccepts(view, base, w)]
    /\ UNCHANGED <<base, view, hoaVars, accVars, tsVars, omegaVars, symVars, moreVars>>

ColorEdgesFromCall ==
    /\ view.kind = "colors"
    /\ viewres.op = "none"
    /\ \E q \in IndicesAsked :
          viewres' = [NoViewCall EXCEPT !.op = "edges_from", !.outcome = "ok", !.state = q,
                                        !.some = ColorRestrictedEdgesFrom(view, base, q).some,
                                        !.seq = ColorRestrictedEdgesFrom(view, base, q).edges]
    /\ UNCHANGED <<base, view, hoaVars, accVars, tsVars, omegaVars, symVars, moreVars>>

ColorEdgeCall ==
    /\ view.kind = "colors"
    /\ viewres.op = "none"
    /\ \E q \in IndicesAsked, a \in Sigma :
          LET e == ColorRestrictedEdge(view, base, q, a)
          IN  viewres' = [NoViewCall EXCEPT !.op = "edge", !.outcome = "ok", !.state = q,
                                            !.sym = a, !.some = (e # NoEdge),
                                            !.seq = IF e # NoEdge THEN <<e>> ELSE <<>>]
    /\ UNCHANGED <<base, view, hoaVars, accVars, tsVars, omegaVars, symVars, moreVars>>

NextView ==
    \/ StateIndicesCall
    \/ StateColorCall
    \/ EdgesFromCall
    \/ MaybeInitialStateCall
    \/ InitialCall
    \/ IntoPartsCall
    \/ AcceptsCall
    \/ RestrictedAcceptsCall
    \/ ColorEdgesFromCall
    \/ ColorEdgeCall

(***************************************************************************)
(* Calls on one AcceptanceMask (src/src/automaton/omega.rs).  The mask     *)
(* may hold any index up to MaxBit.                                        *)
(***************************************************************************)
MaxBit == 4

\* AcceptanceMask::min: iter().min()
MaskMin(m) == IF m = {} THEN -1 ELSE MinOf(m)

\* AcceptanceMask::max: iter().max()
MaskMax(m) == IF m = {} THEN -1 ELSE MaxOf(m)

\* the warn! of try_as_priority: a second index follows the first
TryAsPriorityWarns(m) == Cardinality(m) > 1

\* AcceptanceMask::as_priority: try_as_priority().unwrap()
AsPriority(m) ==
    IF TryAsPriority(m) = -1
    THEN [outcome |-> "unwrap_none", value |-> -1]
    ELSE [outcome |-> "ok", value |-> TryAsPriority(m)]

InitMask ==
    /\ mask \in SUBSET (0..MaxBit)
    /\ maskres = NoMaskCall
    /\ PoppedIdle
    /\ HeaderIdle
    /\ AlphaIdle
    /\ ConvIdle
    /\ HoaIdle
    /\ AccIdle
    /\ TsIdle
    /\ OmegaIdle
    /\ SymIdle
    /\ ViewIdle

MinCall ==
    /\ maskres.op = "none"
    /\ maskres' = [NoMaskCall EXCEPT !.op = "min", !.outcome = "ok", !.value = MaskMin(mask)]
    /\ UNCHANGED <<mask, popped, headerVars, alphaVars, convVars,
                   hoaVars, accVars, tsVars, omegaVars, symVars, viewVars>>

MaxCall ==
    /\ maskres.op = "none"
    /\ maskres' = [NoMaskCall EXCEPT !.op = "max", !.outcome = "ok", !.value = MaskMax(mask)]
    /\ UNCHANGED <<mask, popped, headerVars, alphaVars, convVars,
                   hoaVars, accVars, tsVars, omegaVars, symVars, viewVars>>

TryAsPriorityCall ==
    /\ maskres.op = "none"
    /\ maskres' = [NoMaskCall EXCEPT !.op = "try_as_priority", !.outcome = "ok",
                                     !.value = TryAsPriority(mask),
                                     !.warned = TryAsPriorityWarns(mask)]
    /\ UNCHANGED <<mask, popped, headerVars, alphaVars, convVars,
                   hoaVars, accVars, tsVars, omegaVars, symVars, viewVars>>

AsPriorityCall ==
    /\ maskres.op = "none"
    /\ maskres' = [NoMaskCall EXCEPT !.op = "as_priority",
                                     !.outcome = AsPriority(mask).outcome,
                                     !.value = AsPriority(mask).value,
                                     !.warned = TryAsPriorityWarns(mask)]
    /\ UNCHANGED <<mask, popped, headerVars, alphaVars, convVars,
                   hoaVars, accVars, tsVars, omegaVars, symVars, viewVars>>

NextMask == MinCall \/ MaxCall \/ TryAsPriorityCall \/ AsPriorityCall

(***************************************************************************)
(* Packing a symbol into a character and back (src/src/hoa.rs): to_char on *)
(* a symbol of the universe, then from_char on the character with the      *)
(* symbol's proposition count.  symres.syms keeps the symbol packed.       *)
(***************************************************************************)
\* the largest alphabet packed: one proposition more than a character holds
MaxPackAps == 6

InitPack ==
    /\ apn \in 1..MaxPackAps
    /\ expr = NoExpression
    /\ uni = NoUniverse
    /\ yielded = <<>>
    /\ symres = NoCall
    /\ HoaIdle
    /\ AccIdle
    /\ TsIdle
    /\ OmegaIdle
    /\ ViewIdle
    /\ MoreIdle

PackCall ==
    /\ symres.op = "none"
    /\ \E s \in UniverseSymbols(apn) :
          symres' = [NoCall EXCEPT !.op = "to_char", !.outcome = ToChar(s).outcome,
                                   !.sym = s, !.syms = {s}, !.code = ToChar(s).code]
    /\ UNCHANGED <<apn, expr, uni, yielded, hoaVars, accVars, tsVars, omegaVars, viewVars, moreVars>>

UnpackCall ==
    /\ symres.op = "to_char"
    /\ symres.outcome = "ok"
    /\ symres' = [symres EXCEPT !.op = "from_char",
                                !.outcome = FromChar(symres.code, symres.sym.aps).outcome,
                                !.sym = FromChar(symres.code, symres.sym.aps).sym]
    /\ UNCHANGED <<apn, expr, uni, yielded, hoaVars, accVars, tsVars, omegaVars, viewVars, moreVars>>

NextPack == PackCall \/ UnpackCall

(***************************************************************************)
(* The two extractors on one text (src/src/hoa/input.rs): a text of whole  *)
(* lines is read by HoaAutomatonStream and, beside it, popped with         *)
(* pop_omega_automaton until that returns none.                            *)
(***************************************************************************)
MaxLines == 4

Lines ==
    {<<"ABORT", "NL">>, <<"END", "NL">>, <<"N", "NL">>, <<"D", "NL">>, <<"U", "NL">>, <<"NL">>}

InitBoth ==
    /\ \E n \in 0..MaxLines : \E ls \in [1..n -> Lines] : pieces = Flatten(ls)
    /\ op = "both"
    /\ pc = "call"
    /\ hoa = TextOf(pieces)
    /\ read = TextOf(pieces)
    /\ buf = <<>>
    /\ pos = 0
    /\ handed = <<>>
    /\ delivered = <<>>
    /\ popped = [pc |-> "call", handed |-> <<>>, count |-> 0]
    /\ MaskIdle
    /\ HeaderIdle
    /\ AlphaIdle
    /\ ConvIdle
    /\ AccIdle
    /\ TsIdle
    /\ OmegaIdle
    /\ SymIdle
    /\ ViewIdle

\* a caller that pops until pop_omega_automaton returns none: one call
BothPopStep ==
    /\ op = "both"
    /\ popped.pc = "call"
    /\ LET r == PopOmegaAutomaton(hoa)
       IN  IF r.some
           THEN /\ popped' = [pc |-> "call", handed |-> popped.handed \o r.handed,
                              count |-> popped.count + 1]
                /\ hoa' = r.rest
           ELSE /\ popped' = [popped EXCEPT !.pc = "done", !.handed = popped.handed \o r.handed]
                /\ hoa' = hoa
    /\ UNCHANGED <<pieces, op, pc, read, buf, pos, handed, delivered, maskVars,
                   headerVars, alphaVars, convVars, accVars, tsVars, omegaVars, symVars, viewVars>>

NextBoth == BothPopStep \/ StreamStep

(***************************************************************************)
(* Compiling the header of a parsed automaton (src/src/hoa/input.rs).  The *)
(* header is what the code reads of it: its acceptance name, the number of *)
(* acceptance sets of its Acceptance item (-1: no such item), its number   *)
(* of propositions, and whether every edge label converts to a BDD.        *)
(***************************************************************************)
MaxSets == 2

AcceptanceNames ==
    {"Buchi", "GeneralizedBuchi", "CoBuchi", "GeneralizedCoBuchi", "Streett", "Rabin",
     "GeneralizedRabin", "Parity", "All", "None"}

Headers ==
    [name : AcceptanceNames, sets : -1..MaxSets, aps : 0..MAX_APS, labels : {"ok", "bad"}]

\* the compilation with an unsupported name read as Buchi
AcceptanceTryFromDefaulting(h) ==
    CASE h.name = "Parity" ->
            IF h.sets = -1
            THEN [outcome |-> "unwrap_none", acc |-> "none", low |-> 0, high |-> 0]
            ELSE [outcome |-> "ok", acc |-> "Parity", low |-> 0, high |-> h.sets]
      [] OTHER -> [outcome |-> "ok", acc |-> "Buchi", low |-> 0, high |-> 0]

\* TryFrom<&hoars::Header> for OmegaAcceptanceCondition
AcceptanceTryFrom(h) ==
    CASE h.name = "Buchi" -> [outcome |-> "ok", acc |-> "Buchi", low |-> 0, high |-> 0]
      [] h.name = "Parity" ->
            IF h.sets = -1
            THEN [outcome |-> "unwrap_none", acc |-> "none", low |-> 0, high |-> 0]
            ELSE [outcome |-> "ok", acc |-> "Parity", low |-> 0, high |-> h.sets]
      [] OTHER -> [outcome |-> "err", acc |-> "none", low |-> 0, high |-> 0]

\* hoa_automaton_to_nts, as far as it can fail
HoaAutomatonToNts(h) ==
    IF ~(h.aps <= MAX_APS) \/ ~(h.aps < MAX_APS) \/ h.aps = 0
    THEN "assert_failed"
    ELSE IF h.labels = "bad" THEN "err" ELSE "ok"

\* TryFrom<HoaAutomaton> for OmegaAutomaton<HoaAlphabet>
HoaAutomatonIntoOmega(h) ==
    LET cond == AcceptanceTryFrom(h)
    IN  IF cond.outcome # "ok"
        THEN [outcome |-> cond.outcome, acc |-> "none", low |-> 0, high |-> 0, built |-> FALSE]
        ELSE IF HoaAutomatonToNts(h) # "ok"
        THEN [outcome |-> HoaAutomatonToNts(h), acc |-> "none", low |-> 0, high |-> 0,
              built |-> FALSE]
        ELSE [outcome |-> "ok", acc |-> cond.acc, low |-> cond.low, high |-> cond.high,
              built |-> TRUE]

InitHeader ==
    /\ header \in Headers
    /\ compiled = NoCompiled
    /\ MaskIdle
    /\ PoppedIdle
    /\ AlphaIdle
    /\ ConvIdle
    /\ HoaIdle
    /\ AccIdle
    /\ TsIdle
    /\ OmegaIdle
    /\ SymIdle
    /\ ViewIdle

AcceptanceTryFromCall ==
    /\ compiled.op = "none"
    /\ compiled' = [op |-> "acceptance", outcome |-> AcceptanceTryFrom(header).outcome,
                    acc |-> AcceptanceTryFrom(header).acc,
                    low |-> AcceptanceTryFrom(header).low,
                    high |-> AcceptanceTryFrom(header).high, built |-> FALSE]
    /\ UNCHANGED <<header, maskVars, popped, alphaVars, convVars,
                   hoaVars, accVars, tsVars, omegaVars, symVars, viewVars>>

OmegaAutomatonTryFromCall ==
    /\ compiled.op = "none"
    /\ compiled' = [op |-> "automaton", outcome |-> HoaAutomatonIntoOmega(header).outcome,
                    acc |-> HoaAutomatonIntoOmega(header).acc,
                    low |-> HoaAutomatonIntoOmega(header).low,
                    high |-> HoaAutomatonIntoOmega(header).high,
                    built |-> HoaAutomatonIntoOmega(header).built]
    /\ UNCHANGED <<header, maskVars, popped, alphaVars, convVars,
                   hoaVars, accVars, tsVars, omegaVars, symVars, viewVars>>

NextHeader == AcceptanceTryFromCall \/ OmegaAutomatonTryFromCall

(***************************************************************************)
(* HoaAlphabet values and their equality (src/src/hoa.rs).  An alphabet is *)
(* its proposition names and its expressions field; from_hoa_automaton is  *)
(* the one constructor and nothing writes the field afterwards.  A parsed  *)
(* automaton is given by its proposition names and its edge labels.        *)
(***************************************************************************)
MaxNames == 2

ApNames == UNION {[1..n -> {"a", "b", "c"}] : n \in 0..MaxNames}

ParsedAutomata == [aps : ApNames, labels : {{}, {"t"}}]

\* from_hoa_automaton storing the labels of the automaton in the new alphabet
FromHoaAutomatonCaching(aut) ==
    IF ~(Len(aut.aps) < MAX_APS) \/ Len(aut.aps) = 0
    THEN [outcome |-> "assert_failed", alphabet |-> [apnames |-> <<>>, expressions |-> {}]]
    ELSE [outcome |-> "ok", alphabet |-> [apnames |-> aut.aps, expressions |-> aut.labels]]

\* HoaAlphabet::from_hoa_automaton
FromHoaAutomaton(aut) ==
    IF ~(Len(aut.aps) < MAX_APS) \/ Len(aut.aps) = 0
    THEN [outcome |-> "assert_failed", alphabet |-> [apnames |-> <<>>, expressions |-> {}]]
    ELSE [outcome |-> "ok", alphabet |-> [apnames |-> aut.aps, expressions |-> {}]]

\* derive(Clone) for HoaAlphabet
HoaAlphabetClone(x) == [apnames |-> x.apnames, expressions |-> x.expressions]

\* derive(PartialEq) for HoaAlphabet: field by field
HoaAlphabetEq(x, y) == x.apnames = y.apnames /\ x.expressions = y.expressions

InitAlphabet ==
    /\ alphas = <<>>
    /\ eqres = "none"
    /\ MaskIdle
    /\ PoppedIdle
    /\ HeaderIdle
    /\ ConvIdle
    /\ HoaIdle
    /\ AccIdle
    /\ TsIdle
    /\ OmegaIdle
    /\ SymIdle
    /\ ViewIdle

FromHoaAutomatonCall ==
    /\ Len(alphas) < 2
    /\ eqres = "none"
    /\ \E aut \in ParsedAutomata :
          IF FromHoaAutomaton(aut).outcome = "ok"
          THEN /\ alphas' = Append(alphas, FromHoaAutomaton(aut).alphabet)
               /\ eqres' = eqres
          ELSE /\ alphas' = alphas
               /\ eqres' = "assert_failed"
    /\ UNCHANGED <<maskVars, popped, headerVars, convVars,
                   hoaVars, accVars, tsVars, omegaVars, symVars, viewVars>>

CloneCall ==
    /\ Len(alphas) = 1
    /\ eqres = "none"
    /\ alphas' = Append(alphas, HoaAlphabetClone(alphas[1]))
    /\ UNCHANGED <<eqres, maskVars, popped, headerVars, convVars,
                   hoaVars, accVars, tsVars, omegaVars, symVars, viewVars>>

EqCall ==
    /\ Len(alphas) = 2
    /\ eqres = "none"
    /\ eqres' = IF HoaAlphabetEq(alphas[1], alphas[2]) THEN "equal" ELSE "unequal"
    /\ UNCHANGED <<alphas, maskVars, popped, headerVars, convVars,
                   hoaVars, accVars, tsVars, omegaVars, symVars, viewVars>>

NextAlphabet == FromHoaAutomatonCall \/ CloneCall \/ EqCall

(***************************************************************************)
(* Conversions between the alphabets (src/src/automaton/omega.rs).  The    *)
(* automaton over propositions has expressions [bdd, aps] on its edges.    *)
(* The automaton over characters is given by what the builder receives:    *)
(* the state colors, the transitions (the distinct ones and their number), *)
(* the initial state and the condition.  Of an automaton over characters   *)
(* that is converted back, only the size of its alphabet is read.          *)
(***************************************************************************)
CHAR_BITS == 4

MaxAlphabet == 17

ConvExpressions(n) == [bdd : {Top, Var(0), NotVar(0), Var(n - 1)}, aps : {n}]

ConvEdgesOver(colors, n) ==
    [source : 0..(Len(colors) - 1), expression : ConvExpressions(n),
     color : {{}, {0}}, target : 0..(Len(colors) - 1)]

\* a deterministic automaton: no state has two edges with a common valuation
ConvIsDeterministic(es) ==
    \A i, j \in 1..Len(es) :
        (i # j /\ es[i].source = es[j].source) =>
            es[i].expression.bdd \cap es[j].expression.bdd = {}

\* the transitions given to the builder for one edge: one per symbol of symbols()
EdgeTransitions(e) ==
    {[source |-> e.source, letter |-> ToChar(sym).code, color |-> e.color,
      target |-> e.target] : sym \in ExpressionSymbols(e.expression)}

\* the number of transitions given to the builder
TransitionCount(es) ==
    LET F[k \in 0..Len(es)] ==
            IF k = 0 THEN 0 ELSE F[k - 1] + Cardinality(ExpressionSymbols(es[k].expression))
    IN  F[Len(es)]

\* From<DeterministicOmegaAutomaton<HoaAlphabet>> for
\* DeterministicOmegaAutomaton<CharAlphabet>
HoaToChar(value) ==
    [op |-> "from_hoa", outcome |-> "ok",
     colors |-> value.ts.colors,
     edges |-> UNION {EdgeTransitions(value.ts.edges[k]) : k \in 1..Len(value.ts.edges)},
     count |-> TransitionCount(value.ts.edges),
     initial |-> value.initial,
     acc |-> value.acc]

\* usize::next_power_of_two
NextPowerOfTwo(n) == MinOf({Pow2(k) : k \in 0..(n + 1)} \cap (n..(2 * n + 1)))

\* usize::ilog2
Ilog2(n) == MaxOf({k \in 0..n : Pow2(k) <= n})

\* TryFrom<DeterministicOmegaAutomaton<CharAlphabet>> for
\* DeterministicOmegaAutomaton<HoaAlphabet>
CharToHoa(alphabet_size) ==
    IF alphabet_size # NextPowerOfTwo(alphabet_size) \/ alphabet_size = 0
    THEN [op |-> "try_from_char", outcome |-> "err"]
    ELSE IF ~(Ilog2(alphabet_size) > 0)
    THEN [op |-> "try_from_char", outcome |-> "assert_failed"]
    ELSE [op |-> "try_from_char", outcome |-> "todo"]

InitConv ==
    /\ \/ \E n \in 1..CHAR_BITS, c \in {<<0>>, <<0, 1>>}, k \in 0..MaxEdges :
             \E es \in [1..k -> ConvEdgesOver(c, n)] :
                /\ ConvIsDeterministic(es)
                /\ \E initial \in 0..(Len(c) - 1), cond \in OmegaConditions :
                      convin = [kind |-> "symbolic", aps |-> n,
                                ts |-> [colors |-> c, edges |-> es],
                                initial |-> initial, acc |-> cond]
       \/ \E size \in 0..MaxAlphabet : convin = [kind |-> "explicit", size |-> size]
    /\ convout = NoConvOut
    /\ MaskIdle
    /\ PoppedIdle
    /\ HeaderIdle
    /\ AlphaIdle
    /\ HoaIdle
    /\ AccIdle
    /\ TsIdle
    /\ OmegaIdle
    /\ SymIdle
    /\ ViewIdle

HoaToCharCall ==
    /\ convin.kind = "symbolic"
    /\ convout.op = "none"
    /\ convout' = HoaToChar(convin)
    /\ UNCHANGED <<convin, maskVars, popped, headerVars, alphaVars,
                   hoaVars, accVars, tsVars, omegaVars, symVars, viewVars>>

CharToHoaCall ==
    /\ convin.kind = "explicit"
    /\ convout.op = "none"
    /\ convout' = CharToHoa(convin.size)
    /\ UNCHANGED <<convin, maskVars, popped, headerVars, alphaVars,
                   hoaVars, accVars, tsVars, omegaVars, symVars, viewVars>>

NextConv == HoaToCharCall \/ CharToHoaCall

(***************************************************************************)
(* Specifications: one per component, the other components at rest.        *)
(***************************************************************************)
SpecHoa == InitHoa /\ [][NextHoa]_vars

SpecAcc == InitAcc /\ [][NextAcc]_vars

SpecTs == InitTs /\ [][NextTs]_vars

SpecOmega == InitOmega /\ [][NextOmega]_vars

SpecUniverse == InitUniverse /\ [][NextUniverse]_vars

SpecSym == InitSym /\ [][NextSym]_vars

SpecView == InitView /\ [][NextView]_vars

SpecMask == InitMask /\ [][NextMask]_vars

SpecPack == InitPack /\ [][NextPack]_vars

SpecBoth == InitBoth /\ [][NextBoth]_vars

SpecHeader == InitHeader /\ [][NextHeader]_vars

SpecAlphabet == InitAlphabet /\ [][NextAlphabet]_vars

SpecConv == InitConv /\ [][NextConv]_vars

(***************************************************************************)
(* The input read block by block, for the statements below: a block is the *)
(* run of pieces up to and including an --END-- piece; an --ABORT-- inside *)
(* it discards what precedes it.                                           *)
(***************************************************************************)
EndsOf(ps) == {i \in 1..Len(ps) : ps[i] = "END"}

AbortsOf(ps) == {i \in 1..Len(ps) : ps[i] = "ABORT"}

\* the first piece of the block that the END piece at e closes
BlockStart(ps, e) == 1 + MaxOf({0} \cup {i \in 1..(e - 1) : ps[i] \in {"END", "ABORT"}})

BlockContent(ps, e) ==
    SelectSeq(SubSeq(ps, BlockStart(ps, e), e - 1), LAMBDA p : p \notin {"SP", "NL"})

WellFormedBlock(ps, e) == Len(BlockContent(ps, e)) = 1 /\ BlockContent(ps, e)[1] \in {"D", "N"}

DeterministicBlock(ps, e) == BlockContent(ps, e) = <<"D">>

BlockText(ps, e) == TextOf(SubSeq(ps, BlockStart(ps, e), e))

\* the text that follows the END piece at e, leading whitespace aside
ResidualAfter(ps, e) == TrimStart(TextOf(SubSeq(ps, e + 1, Len(ps))))

\* the delivered automaton d is the block closed by the END piece at e
IsBlock(d, ps, e) ==
    /\ d.kind = BlockContent(ps, e)[1]
    /\ TrimStart(d.rest) = ResidualAfter(ps, e)

\* every marker stands on a line of its own
OwnLines(ps) ==
    \A i \in EndsOf(ps) \cup AbortsOf(ps) :
        /\ i = 1 \/ ps[i - 1] = "NL"
        /\ i = Len(ps) \/ ps[i + 1] = "NL"

Acted == handed # <<>> \/ pc = "done"

(***************************************************************************)
(* C1.  Popping from <unterminated block A> --ABORT-- <complete block B>   *)
(* returns exactly automaton B: the text parsed is B's and nothing of A's, *)
(* and the residual returned with it is empty.                             *)
(***************************************************************************)
AbortThenBlock ==
    /\ Cardinality(AbortsOf(pieces)) = 1
    /\ Cardinality(EndsOf(pieces)) = 1
    /\ LET a == MinOf(AbortsOf(pieces))
           e == MinOf(EndsOf(pieces))
       IN  /\ 1 < a
           /\ a < e
           /\ WellFormedBlock(pieces, e)
           /\ \A i \in (e + 1)..Len(pieces) : pieces[i] \in {"SP", "NL"}

\* C1: from A --ABORT-- B --END-- exactly B is parsed and returned, the residual empty
C1_AbortYieldsExactlyB ==
    (AbortThenBlock /\ Acted /\ op \in {"pop", "popdet"}) =>
        LET e == MinOf(EndsOf(pieces))
            b == [kind |-> BlockContent(pieces, e)[1],
                  text |-> BlockText(pieces, e),
                  rest |-> <<>>]
        IN  /\ handed[1] = BlockText(pieces, e)
            /\ (op = "pop" \/ DeterministicBlock(pieces, e)) =>
                   delivered = <<b>>

C1_Witness ==
    /\ AbortThenBlock
    /\ op = "popdet"
    /\ pc = "done"
    /\ Len(delivered) = 1
    /\ pieces[1] \in {"D", "N"}

(***************************************************************************)
(* C2.  A block that fails to parse or to convert is skipped: a            *)
(* well-formed complete block that follows a malformed one is still        *)
(* delivered (by the deterministic extractors when it is deterministic).   *)
(***************************************************************************)
C2_MalformedBlockIsSkipped ==
    (/\ pc = "done"
     /\ AbortsOf(pieces) = {}
     /\ op \in {"stream", "filter"} => OwnLines(pieces)) =>
        \A i, j \in EndsOf(pieces) :
            (/\ i < j
             /\ ~WellFormedBlock(pieces, i)
             /\ WellFormedBlock(pieces, j)
             /\ op \in {"popdet", "filter"} => DeterministicBlock(pieces, j)) =>
                /\ delivered # <<>>
                /\ op \in {"pop", "stream"} =>
                       \E k \in 1..Len(delivered) : IsBlock(delivered[k], pieces, j)

(***************************************************************************)
(* C3.  Every automaton the deterministic extractors return is             *)
(* deterministic, and a block that parses but is nondeterministic is       *)
(* skipped, so that the first deterministic block after it is the one      *)
(* returned, with the residual that follows that block.                    *)
(***************************************************************************)
C3_FirstDeterministicBlockReturned ==
    (op = "popdet" /\ pc = "done" /\ AbortsOf(pieces) = {}) =>
        /\ \A k \in 1..Len(delivered) : delivered[k].kind = "D"
        /\ \A i, j \in EndsOf(pieces) :
              (/\ i = MinOf(EndsOf(pieces))
               /\ WellFormedBlock(pieces, i)
               /\ ~DeterministicBlock(pieces, i)
               /\ i < j
               /\ DeterministicBlock(pieces, j)
               /\ \A m \in EndsOf(pieces) : (i < m /\ m < j) => ~DeterministicBlock(pieces, m)) =>
                  /\ Len(delivered) = 1
                  /\ IsBlock(delivered[1], pieces, j)

(***************************************************************************)
(* C4.  An --ABORT-- discards everything before it: when one or more       *)
(* --ABORT-- markers precede the first --END--, the text handed to the     *)
(* parser starts after the last of them and ends with that --END--.        *)
(***************************************************************************)
C4_TextStartsAfterLastAbort ==
    (/\ op \in {"pop", "popdet"}
     /\ handed # <<>>
     /\ EndsOf(pieces) # {}
     /\ \E a \in AbortsOf(pieces) : a < MinOf(EndsOf(pieces))) =>
        handed[1] = BlockText(pieces, MinOf(EndsOf(pieces)))

(***************************************************************************)
(* C5.  With no --END-- marker in the input nothing is handed to the       *)
(* parser and nothing is delivered: pop_omega_automaton returns none at    *)
(* its first call and the stream returns none at the end of the input.     *)
(***************************************************************************)
C5_NoCompleteBlockNoParse ==
    EndsOf(pieces) = {} =>
        /\ handed = <<>>
        /\ delivered = <<>>
        /\ op \in {"pop", "popdet"} => hoa = TextOf(pieces)
        /\ (op \in {"stream", "filter"} /\ pc = "done") => read = <<>>

C5_Witness ==
    /\ EndsOf(pieces) = {}
    /\ AbortsOf(pieces) # {}
    /\ \E i \in 1..Len(pieces) : pieces[i] \in {"D", "N"} /\ \A a \in AbortsOf(pieces) : a < i
    /\ pc = "done"
    /\ op \in {"pop", "stream"}

(***************************************************************************)
(* C6.  Every successful pop returns as residual the text after the first  *)
(* --END-- marker with its leading whitespace removed, a strictly shorter  *)
(* text; every step of a popping loop either ends the loop or strictly     *)
(* shortens the text it works on, so the loops terminate.                  *)
(***************************************************************************)
IsResidual(text, r) ==
    \E k \in 0..(Len(text) - END_LEN) :
        /\ Slice(text, k, k + END_LEN) = END
        /\ \A j \in 0..(k - 1) : Slice(text, j, j + END_LEN) # END
        /\ r = TrimStart(Slice(text, k + END_LEN, Len(text)))

\* C6: a step of a popping loop ends it or leaves the residual after the first
\* --END--, whitespace trimmed, which is strictly shorter
PopProgressStep ==
    op \in {"pop", "popdet"} =>
        /\ pc' = "done" \/ (Len(hoa') < Len(hoa) /\ IsResidual(hoa, hoa'))
        /\ delivered' # delivered =>
               /\ IsResidual(hoa, delivered'[Len(delivered')].rest)
               /\ Len(delivered'[Len(delivered')].rest) < Len(hoa)

\* C6: every step of the popping loops is such a step
C6_PopProgress == [][PopProgressStep]_vars

C6_Witness ==
    /\ op = "pop"
    /\ Len(delivered) = 2
    /\ delivered[1].rest # <<>>
    /\ pc = "done"

(***************************************************************************)
(* C7.  Parity(low, high).satisfied(infset) is true iff the minimum        *)
(* priority among the masks of infset is even, and false for the empty     *)
(* infset, whatever low and high are.  As claimed, for every infset:       *)
(***************************************************************************)
PrioritiesOf(set) == {MinOf(m) : m \in set \ {{}}}

ParityExpected(set) ==
    IF PrioritiesOf(set) # {} /\ MinOf(PrioritiesOf(set)) % 2 = 0 THEN "true" ELSE "false"

\* C7 as claimed: for every infset the result is whether the minimum priority is even
C7_ParityMinEvenAnyInfset ==
    (acc.tag = "Parity" /\ outcome # "pending") => outcome = ParityExpected(infset)

\* C7 as amended: the same for every infset all of whose masks are non-empty
C7_ParityMinEven ==
    (acc.tag = "Parity" /\ outcome # "pending" /\ {} \notin infset) =>
        outcome = ParityExpected(infset)

C7_Witness ==
    /\ acc.tag = "Parity"
    /\ acc.low # acc.high
    /\ outcome = "true"
    /\ Cardinality(infset) = 2
    /\ \E m \in infset : Cardinality(m) = 2 /\ 1 \in m

(***************************************************************************)
(* C8.  For every condition other than Parity and every infset, the empty  *)
(* one included, satisfied fails and returns no boolean.                   *)
(***************************************************************************)
C8_OthersFail ==
    (acc.tag # "Parity" /\ outcome # "pending") => outcome = "unimplemented"

C8_Witness ==
    /\ acc.tag = "Buchi"
    /\ infset = {{0}}
    /\ outcome = "unimplemented"

(***************************************************************************)
(* C9.  Determinism round trip: the NTS to DTS conversion succeeds exactly *)
(* when no state of the NTS has two edges matching a common symbol; then   *)
(* transition(state, symbol) of the DTS is the edge found by scanning the  *)
(* NTS's edges from that state, and converting back gives the NTS.         *)
(***************************************************************************)
MatchingEdges(t, q, sym) ==
    {i \in 1..Len(t.edges) : t.edges[i].source = q /\ sym \in t.edges[i].expression}

AtMostOneMatch(t) ==
    \A q \in StateIndices(t), sym \in Sigma : Cardinality(MatchingEdges(t, q, sym)) <= 1

ScanEdge(t, q, sym) ==
    IF MatchingEdges(t, q, sym) = {}
    THEN NoEdge
    ELSE t.edges[CHOOSE i \in MatchingEdges(t, q, sym) : TRUE]

\* C9: the conversion succeeds iff at most one edge matches per state and symbol,
\* and then transition and the conversion back agree with the NTS
C9_DeterminismRoundTrip ==
    conv.done =>
        /\ conv.ok <=> AtMostOneMatch(conv.from)
        /\ conv.ok =>
              /\ wrapper = "DTS"
              /\ \A q \in StateIndices(conv.from), sym \in Sigma :
                    DtsTransition(ts, q, sym) = ScanEdge(conv.from, q, sym)
              /\ NtsFromDts(ts) = conv.from
        /\ ~conv.ok => wrapper = "NTS" /\ ts = conv.from

C9_Witness ==
    /\ conv.done
    /\ conv.ok
    /\ Len(ts.edges) = 2
    /\ ts.edges[1].source = ts.edges[2].source
    /\ ts.edges[1].target # ts.edges[2].target

(***************************************************************************)
(* C10.  Determinism is an invariant of every DTS value: after any         *)
(* constructions and any mutations through the DTS's own write interface,  *)
(* no state has two outgoing edges matching a common symbol.               *)
(***************************************************************************)
\* C10: every DTS value is deterministic
C10_DtsStaysDeterministic == wrapper = "DTS" => AtMostOneMatch(ts)


(***************************************************************************)
(* C11.  The conversion of an OmegaAutomaton into a                        *)
(* DeterministicOmegaAutomaton fails exactly when its transition system    *)
(* has a state with two edges matching a common symbol; when it succeeds   *)
(* the condition, the initial state, the states and the edges are those of *)
(* the automaton converted.                                                *)
(***************************************************************************)
C11_ConversionKeepsAutomaton ==
    det.done =>
        /\ det.ok <=> AtMostOneMatch(omega.ts)
        /\ det.ok => det.aut = omega

C11_Witness ==
    /\ det.done
    /\ det.ok
    /\ det.aut.acc.tag = "Buchi"
    /\ det.aut.initial = 1
    /\ Len(det.aut.ts.edges) = 2

(***************************************************************************)
(* C12.  With a Parity condition into_dpa gives every edge a priority: the *)
(* minimum index of a non-empty mask, the neutral value for an empty mask, *)
(* the neutral value being the maximum of the priorities of all edge       *)
(* masks; states, sources, labels and targets are unchanged.  With any     *)
(* other condition it fails its assertion.                                 *)
(***************************************************************************)
NonEmptyMasks(t) == {t.edges[i].color : i \in 1..Len(t.edges)} \ {{}}

ExpectedPriority(t, msk) ==
    IF msk # {}
    THEN MinOf(msk)
    ELSE MaxOf({MinOf(m) : m \in NonEmptyMasks(t)})

DpaAsExpected ==
    /\ dpa.outcome = "ok"
    /\ dpa.initial = det.aut.initial
    /\ dpa.ts.colors = det.aut.ts.colors
    /\ Len(dpa.ts.edges) = Len(det.aut.ts.edges)
    /\ \A i \in 1..Len(dpa.ts.edges) :
          LET e == det.aut.ts.edges[i]
          IN  dpa.ts.edges[i] =
                  [e EXCEPT !.color = ExpectedPriority(det.aut.ts, e.color)]

\* C12 as claimed: for every deterministic automaton with a Parity condition
C12_IntoDpaAnyAutomaton ==
    dpa.done =>
        IF det.aut.acc.tag = "Parity"
        THEN DpaAsExpected
        ELSE dpa.outcome = "assert_failed"

\* C12 as amended: for every such automaton with at least one non-empty edge mask
C12_IntoDpa ==
    dpa.done =>
        IF det.aut.acc.tag = "Parity"
        THEN NonEmptyMasks(det.aut.ts) # {} => DpaAsExpected
        ELSE dpa.outcome = "assert_failed"

C12_Witness ==
    /\ dpa.done
    /\ dpa.outcome = "ok"
    /\ \E i, j \in 1..Len(det.aut.ts.edges) :
          /\ det.aut.ts.edges[i].color = {}
          /\ det.aut.ts.edges[j].color = {1, MaxIndex}
          /\ dpa.ts.edges[i].color = 1
          /\ dpa.ts.edges[j].color = 1

(***************************************************************************)
(* C13.  Enumeration completeness: the symbols produced by e.symbols() are *)
(* exactly the symbols of universe() that e matches.                       *)
(***************************************************************************)
C13_SymbolsAreMatchingUniverse ==
    symres.op = "symbols" =>
        symres.syms = {s \in UniverseSymbols(apn) : ExpressionMatches(expr, s)}

(***************************************************************************)
(* C14.  With n < MAX_APS propositions size() is 2^n and universe() yields *)
(* each of the 2^n valuations once, in a sequence that ends, each with     *)
(* proposition count n, its 8-bit counter never overflowing; a new call of *)
(* universe() starts from the first symbol.                                *)
(***************************************************************************)
C14_UniverseEnumerates ==
    /\ uni.state \in {"iterating", "ended"} =>
          /\ apn < MAX_APS
          /\ uni.current = Len(yielded)
          /\ Len(yielded) <= Pow2(apn)
          /\ \A k \in 1..Len(yielded) : yielded[k] = [repr |-> k - 1, aps |-> apn]
    /\ uni.state = "ended" => Len(yielded) = Pow2(apn)
    /\ (symres.op = "size" /\ apn < MAX_APS) => symres.code = Pow2(apn)

C14_Witness ==
    /\ apn = MAX_APS - 1
    /\ uni.state = "ended"
    /\ Len(yielded) = 128
    /\ symres.op = "size"

(***************************************************************************)
(* C15.  to_char fails for every symbol with more than 4 propositions or a *)
(* bit set at position 4 or higher, so that no two symbols of an alphabet  *)
(* get the same letter.                                                    *)
(***************************************************************************)
C15_ToCharRejectsWide ==
    symres.op = "to_char" =>
        /\ (symres.sym.aps > 4 \/ symres.sym.repr >= 16) => symres.outcome = "assert_failed"
        /\ symres.outcome = "ok" =>
              \A t \in UniverseSymbols(apn) \ {symres.sym} : ToChar(t).code # symres.code

(***************************************************************************)
(* C16.  matches, symbols and show fail on an expression whose formula is  *)
(* unsatisfiable.                                                          *)
(***************************************************************************)
C16_UnsatisfiableIsFatal ==
    (symres.op \in {"matches", "symbols", "show"} /\ expr.bdd = {}) =>
        symres.outcome = "panic"

(***************************************************************************)
(* C17.  The DFA of the test accepts "aa"; restricted by hiding state 2 it *)
(* still accepts "aa".                                                     *)
(***************************************************************************)
AskedAa == base = TestDfa /\ viewres.word = <<"a", "a">>

HidingTwo == viewres.op = "restricted_accepts" /\ view.filter = {0, 1}

\* C17 as claimed: hiding state 2 leaves "aa" accepted
C17_HidingTwoStillAccepts ==
    AskedAa =>
        /\ viewres.op = "accepts" => viewres.outcome = "accepted"
        /\ HidingTwo => viewres.outcome = "accepted"

\* C17 as amended: the DFA accepts "aa", and with state 2 hidden it rejects "aa"
C17_HidingTwoRejects ==
    AskedAa =>
        /\ viewres.op = "accepts" => viewres.outcome = "accepted"
        /\ HidingTwo => viewres.outcome = "rejected"

C17_Witness ==
    /\ AskedAa
    /\ HidingTwo
    /\ viewres.outcome = "rejected"

(***************************************************************************)
(* C18.  A word whose run in the underlying DFA visits a hidden state is   *)
(* rejected by the restricted DFA, as a result and not as a failure.       *)
(***************************************************************************)
RECURSIVE Visited(_, _, _)
Visited(t, state, word) ==
    {state} \cup
        IF word = <<>>
        THEN {}
        ELSE LET hits == {i \in 1..Len(t.edges) :
                             t.edges[i].source = state /\ Head(word) \in t.edges[i].expression}
             IN  UNION {Visited(t, t.edges[i].target, Tail(word)) : i \in hits}

VisitsHidden == \E q \in Visited(base, base.initial, viewres.word) : q \notin view.filter

\* C18 as claimed: rejected whenever a hidden state is visited
C18_HiddenStateRejectsAlways ==
    (viewres.op = "restricted_accepts" /\ VisitsHidden) => viewres.outcome = "rejected"

\* C18 as amended: rejected when the hidden state visited is not the initial one;
\* with the initial state hidden the call fails its assertion
C18_HiddenStateRejects ==
    (viewres.op = "restricted_accepts" /\ VisitsHidden) =>
        IF base.initial \in view.filter
        THEN viewres.outcome = "rejected"
        ELSE viewres.outcome = "assert_failed"

C18_Witness ==
    /\ AskedAa
    /\ viewres.op = "restricted_accepts"
    /\ view.filter = {0, 2}
    /\ viewres.outcome = "rejected"

(***************************************************************************)
(* C19.  A RestrictByStateIndex view is a subgraph of the underlying       *)
(* system: its states are the unmasked states, each once; a masked state   *)
(* has no color and no edges; the edges of an unmasked state are the       *)
(* underlying edges into unmasked states, in order; into_parts returns the *)
(* system as given.                                                        *)
(***************************************************************************)
ViewStates == StateIndices(base) \cap view.filter

\* C19: the view shows exactly the unmasked part of the underlying system
C19_ViewIsSubgraph ==
    view.kind = "states" =>
        /\ viewres.op = "state_indices" =>
              /\ {viewres.seq[k] : k \in 1..Len(viewres.seq)} = ViewStates
              /\ Len(viewres.seq) = Cardinality(ViewStates)
        /\ viewres.op = "state_color" =>
              /\ viewres.state \notin view.filter => ~viewres.some
              /\ viewres.state \in ViewStates =>
                    viewres.some /\ viewres.flag = base.colors[viewres.state + 1]
        /\ viewres.op = "edges_from" =>
              /\ viewres.state \notin view.filter => ~viewres.some
              /\ viewres.state \in ViewStates =>
                    /\ viewres.some
                    /\ viewres.seq =
                          SelectSeq(base.edges,
                                    LAMBDA e : e.source = viewres.state
                                               /\ e.target \in view.filter)
              /\ \A k \in 1..Len(viewres.seq) :
                    viewres.seq[k].source \in ViewStates /\ viewres.seq[k].target \in ViewStates
        /\ viewres.op = "into_parts" => viewres.ts = base /\ viewres.filter = view.filter

C19_Witness ==
    /\ view.kind = "states"
    /\ viewres.op = "edges_from"
    /\ viewres.some
    /\ Len(viewres.seq) = 1
    /\ Len(BaseEdgesFrom(base, viewres.state).edges) = 2

(***************************************************************************)
(* C20.  EdgeColorRestricted(ts, min, max).edge(q, sym) is none iff the    *)
(* color of the unrestricted edge lies outside [min, max] and the same     *)
(* edge otherwise; edges_from(q) yields the underlying edges with a color  *)
(* in [min, max] and agrees with edge.                                     *)
(***************************************************************************)
C20_ColorRange ==
    view.kind = "colors" =>
        /\ viewres.op = "edge" =>
              LET u == ScanEdge(base, viewres.state, viewres.sym)
              IN  IF u = NoEdge
                  THEN ~viewres.some
                  ELSE /\ ~viewres.some <=> (u.color < view.min \/ view.max < u.color)
                       /\ viewres.some => viewres.seq = <<u>>
        /\ (viewres.op = "edges_from" /\ viewres.state \in StateIndices(base)) =>
              /\ viewres.some
              /\ viewres.seq =
                    SelectSeq(base.edges,
                              LAMBDA e : /\ e.source = viewres.state
                                         /\ view.min <= e.color
                                         /\ e.color <= view.max)
              /\ \A a \in Sigma :
                    ColorRestrictedEdge(view, base, viewres.state, a) # NoEdge
                        <=> \E k \in 1..Len(viewres.seq) : a \in viewres.seq[k].expression

C20_Witness ==
    /\ view.kind = "colors"
    /\ view.min < view.max
    /\ viewres.op = "edge"
    /\ viewres.some
    /\ viewres.seq[1].color = view.max
    /\ \E k \in 1..Len(base.edges) : base.edges[k].color < view.min

(***************************************************************************)
(* C30.  With the underlying initial state masked, maybe_initial_state is  *)
(* none and Pointed::initial fails its assertion; with it unmasked both    *)
(* return the underlying initial state.                                    *)
(***************************************************************************)
C30_MaskedInitial ==
    view.kind = "states" =>
        /\ viewres.op = "maybe_initial_state" =>
              IF base.initial \in view.filter
              THEN viewres.some /\ viewres.state = base.initial
              ELSE ~viewres.some
        /\ viewres.op = "initial" =>
              IF base.initial \in view.filter
              THEN viewres.outcome = "ok" /\ viewres.state = base.initial
              ELSE viewres.outcome = "assert_failed"

C30_Witness ==
    /\ view.kind = "states"
    /\ base.initial \notin view.filter
    /\ viewres.op = "maybe_initial_state"
    /\ ~viewres.some

(***************************************************************************)
(* C25.  try_as_priority is none iff the mask is empty and otherwise the   *)
(* least index of the mask, also when the mask holds several indices;      *)
(* as_priority returns the same index, and min() <= max() for a non-empty  *)
(* mask.                                                                   *)
(***************************************************************************)
LeastIndex == CHOOSE i \in mask : \A j \in mask : i <= j

C25_PriorityIsMinimum ==
    /\ maskres.op = "try_as_priority" =>
          /\ maskres.value = -1 <=> mask = {}
          /\ mask # {} => maskres.value = LeastIndex /\ maskres.value = MaskMin(mask)
    /\ (maskres.op = "as_priority" /\ mask # {}) =>
          maskres.outcome = "ok" /\ maskres.value = LeastIndex
    /\ (maskres.op = "min" /\ mask # {}) =>
          maskres.value = LeastIndex /\ maskres.value <= MaskMax(mask)
    /\ (maskres.op = "max" /\ mask # {}) =>
          \A i \in mask : i <= maskres.value

C25_Witness ==
    /\ maskres.op = "try_as_priority"
    /\ Cardinality(mask) = 3
    /\ maskres.warned
    /\ maskres.value = 1

(***************************************************************************)
(* C28.  With a Parity condition, satisfied returns no boolean when the    *)
(* infset holds an empty mask: it fails in as_priority, also when other    *)
(* masks of the infset carry priorities.                                   *)
(***************************************************************************)
C28_EmptyMaskFails ==
    (outcome # "pending" /\ acc.tag = "Parity" /\ {} \in infset) =>
        outcome \notin {"true", "false"} /\ outcome = "unwrap_none"

C28_Witness ==
    /\ acc.tag = "Parity"
    /\ {} \in infset
    /\ {0} \in infset
    /\ outcome = "unwrap_none"

(***************************************************************************)
(* C29.  For every symbol s of at most 4 propositions, the all-false       *)
(* valuation included, from_char(to_char(s), s.aps) succeeds and is s, and *)
(* to_char maps no other symbol of the alphabet to the same character.     *)
(***************************************************************************)
C29_PackingRoundTrips ==
    apn <= 4 =>
        /\ symres.op = "from_char" =>
              symres.outcome = "ok" /\ symres.syms = {symres.sym}
        /\ symres.op = "to_char" =>
              \A s \in UniverseSymbols(apn) :
                  ToChar(s).code = symres.code => s = symres.sym

(***************************************************************************)
(* C26.  In HoaAutomatonStream::next, pos is the length of buf before each *)
(* line is read, and for an --END-- line with any leading whitespace the   *)
(* text handed to the parser runs to the end of the --END-- marker.        *)
(***************************************************************************)
LineStart(i) ==
    LET nls == {k \in 1..(i - 1) : pieces[k] = "NL"}
    IN  IF nls = {} THEN 1 ELSE MaxOf(nls) + 1

EndLinesIndented ==
    \A i \in 1..Len(pieces) :
        pieces[i] = "END" => \A k \in LineStart(i)..(i - 1) : pieces[k] = "SP"

EndsWithMarker(text) ==
    /\ Len(text) >= END_LEN
    /\ SubSeq(text, Len(text) - END_LEN + 1, Len(text)) = END

C26_StreamHandsWholeBlock ==
    op = "stream" =>
        /\ pc = "call" => pos = Len(buf)
        /\ EndLinesIndented => \A k \in 1..Len(handed) : EndsWithMarker(handed[k])

(***************************************************************************)
(* C27.  On a text whose --ABORT-- and --END-- markers stand on lines of   *)
(* their own, the stream and the repeated pop hand the same texts to the   *)
(* parser, in the same order, and end after the same number of automata.   *)
(***************************************************************************)
C27_ExtractorsAgree ==
    (op = "both" /\ pc = "done" /\ popped.pc = "done") =>
        /\ handed = popped.handed
        /\ Len(delivered) = popped.count

(***************************************************************************)
(* C24.  The acceptance declaration compiles to Buchi for the name Buchi,  *)
(* to Parity(0, k) for the name Parity with k declared acceptance sets,    *)
(* and to an error for every other name; on that error the conversion of   *)
(* the automaton returns the error and builds no automaton.                *)
(***************************************************************************)
C24_AcceptanceCompiled ==
    /\ compiled.op = "acceptance" =>
          /\ header.name = "Buchi" => compiled.outcome = "ok" /\ compiled.acc = "Buchi"
          /\ (header.name = "Parity" /\ header.sets >= 0) =>
                /\ compiled.outcome = "ok"
                /\ compiled.acc = "Parity"
                /\ compiled.low = 0
                /\ compiled.high = header.sets
          /\ header.name \notin {"Buchi", "Parity"} => compiled.outcome = "err"
    /\ (compiled.op = "automaton" /\ header.name \notin {"Buchi", "Parity"}) =>
          compiled.outcome = "err" /\ ~compiled.built

C24_Witness ==
    /\ compiled.op = "automaton"
    /\ header.name = "Rabin"
    /\ header.aps = 1
    /\ header.labels = "ok"
    /\ compiled.outcome = "err"
    /\ ~compiled.built

(***************************************************************************)
(* C23.  Two HoaAlphabet values with the same proposition names compare    *)
(* equal in every reachable state, whatever their expressions fields hold. *)
(***************************************************************************)
C23_CacheNotObservable ==
    (eqres \in {"equal", "unequal"} /\ alphas[1].apnames = alphas[2].apnames) =>
        eqres = "equal"

C23_Witness ==
    /\ eqres = "equal"
    /\ Len(alphas) = 2
    /\ alphas[1].apnames = <<"a", "b">>

(***************************************************************************)
(* C21.  The conversion of a deterministic automaton over n <= 4           *)
(* propositions to the character alphabet has, for every state q and every *)
(* symbol s of the universe, exactly one edge from q on to_char(s) iff an  *)
(* edge from q matches s, with that edge's mask and target, and no other   *)
(* edge; it is deterministic, and state colors, initial state and          *)
(* condition are unchanged.                                                *)
(***************************************************************************)
MatchingPairs ==
    {p \in (1..Len(convin.ts.edges)) \X UniverseSymbols(convin.aps) :
        ExpressionMatches(convin.ts.edges[p[1]].expression, p[2])}

ExpectedEdges ==
    {[source |-> convin.ts.edges[p[1]].source, letter |-> ToChar(p[2]).code,
      color |-> convin.ts.edges[p[1]].color, target |-> convin.ts.edges[p[1]].target] :
        p \in MatchingPairs}

C21_NarrowingPreserves ==
    convout.op = "from_hoa" =>
        /\ convout.edges = ExpectedEdges
        /\ convout.count = Cardinality(ExpectedEdges)
        /\ \A t, u \in convout.edges :
              (t.source = u.source /\ t.letter = u.letter) => t = u
        /\ convout.colors = convin.ts.colors
        /\ convout.initial = convin.initial
        /\ convout.acc = convin.acc

(***************************************************************************)
(* C22.  The conversion from the character alphabet back to propositions   *)
(* returns its typed failure when the alphabet's size is zero or not a     *)
(* power of two, and the same typed failure for every other size.          *)
(***************************************************************************)
C22_BackConversionFailsTyped ==
    convout.op = "try_from_char" => convout.outcome = "err"

=============================================================================
